---- MODULE Spec2Model ----
(***************************************************************************)
(* Namespace enumeration, pure-forward replacement and dependency          *)
(* resolution of the renlang front end (src/semantic).                     *)
(*                                                                         *)
(* A program is a set of module files; the parser is an external           *)
(* collaborator, so the content of a module is chosen when the module is   *)
(* parsed.  Hash maps and hash sets are iterated in an arbitrary order.    *)
(***************************************************************************)
EXTENDS Integers, Sequences, FiniteSets, TLC

\* ------------------------------------------------------------------ bounds
\* statements the modules "a" and "b" hold together
MaxStmts == 3

\* ------------------------------------------------------------- the universe
PathSeq == <<"a", "b", "c">>
Paths == {"a", "b", "c"}
\* the main module path
Entry == "a"
\* a module whose content is one of LibContents
Lib == "c"
Names == {"v", "z"}
\* namespaceId / declaration id of "none" (null in the source)
NoId == 0 - 1
None == "-"

\* ------------------------------------------------------------- statements
\* k: kind; m: module string; l: the name on the far side (import name, local
\* value name); n: the name bound here (alias, export name)
Stmt(k, m, l, n) == [k |-> k, m |-> m, l |-> l, n |-> n]

\* import from "m": { v }
ImportStmts == [i \in 1..Len(PathSeq) |-> Stmt("import", PathSeq[i], "v", "v")]
\* import from "c": * as v
NamespaceStmts == << Stmt("import", Lib, "*", "v") >>
\* export from "m": { v }
ForwardStmts == [i \in 1..Len(PathSeq) |-> Stmt("forward", PathSeq[i], "v", "v")]
\* export from "m": { v as z }
AliasStmts == [i \in 1..Len(PathSeq) |-> Stmt("forward", PathSeq[i], "v", "z")]
\* export * from "m"
PureStmts == [i \in 1..Len(PathSeq) |-> Stmt("forward", PathSeq[i], "*", "*")]
\* a second clause export * from "c" in the same module
RepeatStmts == << Stmt("forwardAgain", Lib, "*", "*") >>
\* export v = <constant v>, export { v }, export { z }, <constant v>
DeclStmts ==
    << Stmt("exportDecl", None, "v", "v"),
       Stmt("exportName", None, "v", "v"),
       Stmt("exportName", None, "z", "z"),
       Stmt("decl", None, "v", "v") >>

\* a module lists its imports before its other declarations
AllStmts ==
    ImportStmts \o NamespaceStmts \o ForwardStmts \o AliasStmts \o PureStmts \o RepeatStmts \o DeclStmts
StmtSet == {AllStmts[i] : i \in 1..Len(AllStmts)}

RECURSIVE SubsetsUpTo(_, _)
SubsetsUpTo(S, k) ==
    IF k = 0 THEN {{}}
    ELSE LET P == SubsetsUpTo(S, k - 1)
         IN  P \cup {T \cup {x} : T \in P, x \in S}

Content(S) == SelectSeq(AllStmts, LAMBDA s : s \in S)

LibContents == { <<>>, <<Stmt("exportDecl", None, "v", "v")>> }

\* the contents the parser may return for a module, given the statements left
Contents(path, k) ==
    IF path = Lib THEN LibContents
    ELSE {Content(S) : S \in SubsetsUpTo(StmtSet, k)}

\* what the parser returns: res is "ok", "bad" (a syntax error) or "enoent"
Parsed(res, stmts) == [res |-> res, stmts |-> stmts]
Unseen == Parsed("unseen", <<>>)

\* --------------------------------------------------------------- data model
NewTarget == [status |-> "NotResolved", references |-> <<>>, dependencies |-> <<>>]
Absent == [status |-> "Absent", references |-> <<>>, dependencies |-> <<>>]

ModuleNamespace(id, path) ==
    [namespaceId |-> id, path |-> path,
     locals |-> [n \in Names |-> Absent],
     exports |-> [n \in Names |-> Absent]]

\* Namespace::new_nested: a namespace declared inside another one
NestedNamespace(id, parent, declarationId) ==
    [namespaceId |-> id, path |-> None,
     parentNamespaceId |-> parent, declarationId |-> declarationId,
     locals |-> [n \in Names |-> Absent],
     exports |-> [n \in Names |-> Absent]]

ModuleRef(status, id, fully) ==
    [status |-> status, namespaceId |-> id, fullyResolved |-> fully]

Ref(kind, module, name, decl) ==
    [kind |-> kind, module |-> module, name |-> name, decl |-> decl]

\* ns, name: the name target the result is written to; module, target: the
\* module and export name (or the local name) depended on; id: object identity
Dep(kind, ns, name, module, target, id) ==
    [kind |-> kind, ns |-> ns, name |-> name, module |-> module,
     target |-> target, id |-> id]

\* Diagnostic::new: the level is Error unless set otherwise. location: which
\* token of the statement the diagnostic points at ("moduleName": the module
\* string literal, "name": the export name token, "entry": <entry> [0,0],
\* "file": a position the parser reported)
Diag(kind, ns, name, module, location) ==
    [kind |-> kind, ns |-> ns, name |-> name, module |-> module,
     location |-> location, level |-> "Error"]

RefStatus(r) ==
    IF r.kind \in {"RemoteName", "RemoteNamespace", "LocalName", "LocalDeclaration"}
        THEN "FullyResolved"
    ELSE IF r.kind \in {"MissingModule", "MissingExport", "MissingLocal"}
        THEN "Dangling"
    ELSE IF r.kind \in {"CircularRemote", "CircularLocal"}
        THEN "Circular"
    ELSE "Empty"

HasStatus(refs, st) == \E i \in 1..Len(refs) : RefStatus(refs[i]) = st

\* the same, with circular ranked above dangling
SetAggregateStatusCircularFirst(t) ==
    [t EXCEPT !.status =
        IF HasStatus(t.references, "FullyResolved") THEN "FullyResolved"
        ELSE IF HasStatus(t.references, "Circular") THEN "Circular"
        ELSE IF HasStatus(t.references, "Dangling") THEN "Dangling"
        ELSE "Empty"]

\* NameTarget::set_aggregate_status
SetAggregateStatus(t) ==
    [t EXCEPT !.status =
        IF HasStatus(t.references, "FullyResolved") THEN "FullyResolved"
        ELSE IF HasStatus(t.references, "Dangling") THEN "Dangling"
        ELSE IF HasStatus(t.references, "Circular") THEN "Circular"
        ELSE "Empty"]

\* get_local_target / get_export_target: the target, inserted when absent
GetTarget(map, name) == IF map[name] = Absent THEN NewTarget ELSE map[name]

AddReference(t, r) == [t EXCEPT !.references = Append(@, r)]
AddDependency(t, d) == [t EXCEPT !.dependencies = Append(@, d)]

\* namespaces are indexed from 0 in the source
MutateLocalTarget(nss, ns, name, t) == [nss EXCEPT ![ns + 1].locals[name] = t]
MutateExportTarget(nss, ns, name, t) == [nss EXCEPT ![ns + 1].exports[name] = t]

LocalKeys(nss, ns) == {n \in Names : nss[ns + 1].locals[n] # Absent}
ExportKeys(nss, ns) == {n \in Names : nss[ns + 1].exports[n] # Absent}

\* --------------------------------------------------------------- variables
\* ------------------------------------------------------------- file ranges
\* the largest line and column of a position
MaxLine == 2
MaxColumn == 2

Positions == (0..MaxLine) \X (0..MaxColumn)

\* (line, column) order
Before(p, q) == p[1] < q[1] \/ (p[1] = q[1] /\ p[2] < q[2])

\* FileRange::new
FileRange(path, start, end) == [path |-> path, start |-> start, end |-> end]

\* the ranges of a file: the end is not before the start
FileRanges(path) ==
    {r \in [path : {path}, start : Positions, end : Positions] : ~Before(r.end, r.start)}

NoRange == FileRange(None, <<0, 0>>, <<0, 0>>)
NoRanges == [self |-> NoRange, location |-> NoRange, merged |-> NoRange]

\* FileRange::merge for two ranges of one file
FileRangeMerge(self, location) ==
    IF \/ location.start[1] < self.start[1]
       \/ location.start[1] = self.start[1] /\ location.start[2] < self.start[2]
    THEN FileRange(self.path, <<location.start[1], location.start[1]>>, self.end)
    ELSE IF \/ location.end[1] > self.end[1]
            \/ location.end[1] = self.end[1] /\ location.end[2] > self.end[2]
    THEN FileRange(self.path, self.start, <<location.end[1], location.end[2]>>)
    ELSE FileRange(self.path, self.start, self.end)

VARIABLES
    files,          \* the paths that exist on disk
    prog,           \* path -> what the parser returned for it ("unseen" before)
    left,           \* statements the parser may still hand out
    phase,          \* "enum", "graph", "resolve", "done", or how the run ended
    moduleQueue,    \* EnumerationProcess.module_queue
    modules,        \* path -> ModuleRef ("Absent": not in the map)
    namespaces,     \* the namespace arena
    declarations,   \* the declaration arena
    pureForwards,   \* EnumerationProcess.pure_forwards
    diagnostics,    \* the diagnostics, in the order analyze concatenates them
    ndeps,          \* dependencies created so far (object identities)
    pf,             \* the pure-forward graph and what get_cycles returned
    cur,            \* processNamespace: namespace, loop and the names left
    stack,          \* the pending calls of processExportName/processLocalName
    first,          \* what an earlier run over the same files returned
    ranges,         \* FileRange.merge: self, location and the range returned
    nameTarget,     \* a NameTarget taken alone: its references and status
    order,          \* a second resolution of the same registries: what it
                    \* started from and the processNamespace loops still to run
    backtrackIter,  \* a BacktrackIterator and what its calls returned
    lookaheadIter,  \* a LookaheadIterator and what its calls returned
    parseState,     \* a ParseState and what bk and bk_memo returned
    tokens          \* a Tokens stream and the items it yielded

vars == << files, prog, left, phase, moduleQueue, modules, namespaces,
           declarations, pureForwards, diagnostics, ndeps, pf, cur, stack,
           first, ranges, nameTarget, order, backtrackIter, lookaheadIter,
           parseState, tokens >>

\* ---------------------------------------------------------- enumeration
\* the enumeration process as a value
Process ==
    [moduleQueue |-> moduleQueue, modules |-> modules, namespaces |-> namespaces,
     declarations |-> declarations, pureForwards |-> pureForwards,
     diagnostics |-> diagnostics, ndeps |-> ndeps]

SetFailedModule(p, path, status) ==
    [p EXCEPT !.modules[path] = ModuleRef(status, NoId, TRUE)]

\* setSuccessfulModule giving every module namespace the path of the entry
SetSuccessfulModuleAtEntry(p, path) ==
    LET namespaceId == Len(p.namespaces)
    IN  [p EXCEPT !.modules[path] = ModuleRef("Success", namespaceId, FALSE),
                  !.namespaces = Append(@, ModuleNamespace(namespaceId, Entry))]

SetSuccessfulModule(p, path) ==
    LET namespaceId == Len(p.namespaces)
    IN  [p EXCEPT !.modules[path] = ModuleRef("Success", namespaceId, FALSE),
                  !.namespaces = Append(@, ModuleNamespace(namespaceId, path))]

\* addReferencedModule without the test for a registered path
AddReferencedModuleAgain(p, path) ==
    [p EXCEPT !.modules[path] = ModuleRef("Referenced", NoId, FALSE),
              !.moduleQueue = Append(@, path)]

AddReferencedModule(p, path) ==
    IF p.modules[path].status # "Absent" THEN p
    ELSE [p EXCEPT !.modules[path] = ModuleRef("Referenced", NoId, FALSE),
                   !.moduleQueue = Append(@, path)]

AddImport(p, namespaceId, targetModule, localName, exportName) ==
    LET dep == Dep(IF exportName = "*" THEN "ImportedNamespace" ELSE "ImportedName",
                   namespaceId, localName, targetModule, exportName, p.ndeps)
        t == GetTarget(p.namespaces[namespaceId + 1].locals, localName)
    IN  [p EXCEPT !.namespaces =
                      MutateLocalTarget(@, namespaceId, localName, AddDependency(t, dep)),
                  !.ndeps = @ + 1]

AddForward(p, namespaceId, targetModule, forwardName, exportName) ==
    IF exportName = "*" /\ forwardName = "*"
    THEN [p EXCEPT !.pureForwards =
              Append(@, [forwardNamespace |-> namespaceId, exportModule |-> targetModule])]
    ELSE LET dep == Dep(IF exportName = "*" THEN "ForwardedNamespace" ELSE "ForwardedName",
                        namespaceId, forwardName, targetModule, exportName, p.ndeps)
             t == GetTarget(p.namespaces[namespaceId + 1].exports, exportName)
         IN  [p EXCEPT !.namespaces =
                           MutateExportTarget(@, namespaceId, exportName, AddDependency(t, dep)),
                       !.ndeps = @ + 1]

AddExportedName(p, namespaceId, exportName, localName) ==
    LET dep == Dep("ExportedName", namespaceId, exportName, None, localName, p.ndeps)
        t == GetTarget(p.namespaces[namespaceId + 1].exports, exportName)
    IN  [p EXCEPT !.namespaces =
                      MutateExportTarget(@, namespaceId, exportName, AddDependency(t, dep)),
                  !.ndeps = @ + 1]

AddExportedDeclaration(p, namespaceId, exportName, declarationId) ==
    LET t == GetTarget(p.namespaces[namespaceId + 1].exports, exportName)
    IN  [p EXCEPT !.namespaces =
            MutateExportTarget(@, namespaceId, exportName,
                AddReference(t, Ref("LocalDeclaration", None, None, declarationId)))]

AddLocalName(p, namespaceId, name, declarationId) ==
    LET t == GetTarget(p.namespaces[namespaceId + 1].locals, name)
    IN  [p EXCEPT !.namespaces =
            MutateLocalTarget(@, namespaceId, name,
                AddReference(t, Ref("LocalDeclaration", None, None, declarationId)))]

\* handleImport / handleForward: the module string either resolves to a file
\* or the would-be path is recorded as not found
\* the same, marking an unresolvable module Unparsed when it is met again
HandleModuleNameRemarking(p, targetModule) ==
    IF targetModule \notin files
    THEN SetFailedModule(p, targetModule,
            IF p.modules[targetModule].status = "Absent" THEN "NotFound" ELSE "Unparsed")
    ELSE AddReferencedModule(p, targetModule)

HandleModuleName(p, targetModule) ==
    IF targetModule \notin files
    THEN SetFailedModule(p, targetModule, "NotFound")
    ELSE AddReferencedModule(p, targetModule)

HandleImport(p, node, namespaceId) ==
    AddImport(HandleModuleName(p, node.m), namespaceId, node.m, node.n, node.l)

HandleForward(p, node, namespaceId) ==
    AddForward(HandleModuleName(p, node.m), namespaceId, node.m, node.n, node.l)

\* handleConstant: name is None for an anonymous declaration
\* handleConstant taking the declaration id after the append
HandleConstantAfterAppend(p, name, namespaceId, containingExport) ==
    LET declarationId == Len(p.declarations) + 1
        p1 == [p EXCEPT !.declarations =
                  Append(@, [kind |-> "Constant", declarationId |-> declarationId])]
        p2 == IF name # None THEN AddLocalName(p1, namespaceId, name, declarationId) ELSE p1
    IN  IF containingExport # None
        THEN AddExportedDeclaration(p2, namespaceId, containingExport, declarationId)
        ELSE p2

HandleConstant(p, name, namespaceId, containingExport) ==
    LET declarationId == Len(p.declarations)
        p1 == [p EXCEPT !.declarations =
                  Append(@, [kind |-> "Constant", declarationId |-> declarationId])]
        p2 == IF name # None THEN AddLocalName(p1, namespaceId, name, declarationId) ELSE p1
    IN  IF containingExport # None
        THEN AddExportedDeclaration(p2, namespaceId, containingExport, declarationId)
        ELSE p2

RECURSIVE HandleAll(_, _, _)
RECURSIVE HandleNamespaceSwapped(_, _, _, _)
RECURSIVE HandleNamespace(_, _, _, _)

HandleExport(p, node, namespaceId) ==
    IF node.k = "exportDecl"
    THEN HandleConstant(p, node.l, namespaceId, node.n)
    ELSE IF node.k = "exportNamespace"
    THEN HandleNamespace(p, node, namespaceId, node.n)
    ELSE AddExportedName(p, namespaceId, node.n, node.l)

HandleDeclaration(p, node, namespaceId) ==
    CASE node.k = "import" -> HandleImport(p, node, namespaceId)
      [] node.k \in {"forward", "forwardAgain"} -> HandleForward(p, node, namespaceId)
      [] node.k \in {"exportDecl", "exportName", "exportNamespace"} ->
            HandleExport(p, node, namespaceId)
      [] node.k = "namespace" -> HandleNamespace(p, node, namespaceId, None)
      [] OTHER -> HandleConstant(p, node.l, namespaceId, None)

\* handleNamespace with the id of each arena taken from the other one
HandleNamespaceSwapped(p, node, parentNamespaceId, containingExport) ==
    LET namespaceId == Len(p.declarations)
        declarationId == Len(p.namespaces)
        p1 == [p EXCEPT !.declarations =
                  Append(@, [kind |-> "Namespace", declarationId |-> declarationId,
                             namespaceId |-> namespaceId]),
                        !.namespaces =
                  Append(@, NestedNamespace(namespaceId, parentNamespaceId, declarationId))]
        p2 == IF node.l # None
              THEN AddLocalName(p1, parentNamespaceId, node.l, declarationId) ELSE p1
        p3 == IF containingExport # None
              THEN AddExportedDeclaration(p2, parentNamespaceId, containingExport, declarationId)
              ELSE p2
    IN  HandleAll(p3, node.body, Len(p.namespaces))

\* handleNamespace: the declaration and the nested namespace are registered,
\* then the declarations of the body are handled in the nested namespace
HandleNamespace(p, node, parentNamespaceId, containingExport) ==
    LET namespaceId == Len(p.namespaces)
        declarationId == Len(p.declarations)
        p1 == [p EXCEPT !.declarations =
                  Append(@, [kind |-> "Namespace", declarationId |-> declarationId,
                             namespaceId |-> namespaceId]),
                        !.namespaces =
                  Append(@, NestedNamespace(namespaceId, parentNamespaceId, declarationId))]
        p2 == IF node.l # None
              THEN AddLocalName(p1, parentNamespaceId, node.l, declarationId) ELSE p1
        p3 == IF containingExport # None
              THEN AddExportedDeclaration(p2, parentNamespaceId, containingExport, declarationId)
              ELSE p2
    IN  HandleAll(p3, node.body, namespaceId)

HandleAll(p, nodes, namespaceId) ==
    IF nodes = <<>> THEN p
    ELSE HandleAll(HandleDeclaration(p, Head(nodes), namespaceId), Tail(nodes), namespaceId)

\* one round of consumeModuleQueue on what the parser returned
ConsumeModule(p, modulePath, parsed) ==
    LET next == [p EXCEPT !.moduleQueue = Tail(@)]
    IN  CASE parsed.res = "enoent" -> SetFailedModule(next, modulePath, "NotFound")
          [] parsed.res = "bad" ->
                SetFailedModule(
                    [next EXCEPT !.diagnostics = Append(@, Diag("Parse", NoId, None, modulePath, "file"))],
                    modulePath, "Unparsed")
          [] OTHER ->
                LET ok == SetSuccessfulModule(next, modulePath)
                IN  HandleAll(ok, parsed.stmts, ok.modules[modulePath].namespaceId)

WithEntryError(p) ==
    [p EXCEPT !.diagnostics = Append(@, Diag("Entry", NoId, None, Entry, "entry"))]

\* what reading and parsing the file gives: the same as the last time, when
\* the file was parsed before
ParseOutcomes(path) ==
    IF prog[path] # Unseen THEN {prog[path]}
    ELSE IF path \notin files THEN {Parsed("enoent", <<>>)}
    ELSE {Parsed("bad", <<>>)} \cup {Parsed("ok", c) : c \in Contents(path, left)}

Cost(path, parsed) ==
    IF path = Lib \/ prog[path] # Unseen THEN 0 ELSE Len(parsed.stmts)

Enumerate ==
    /\ phase = "enum"
    /\ moduleQueue # <<>>
    /\ \E parsed \in ParseOutcomes(Head(moduleQueue)) :
        LET modulePath == Head(moduleQueue)
            failed == parsed.res # "ok"
            p0 == ConsumeModule(Process, modulePath, parsed)
            p == IF failed /\ modulePath = Entry THEN WithEntryError(p0) ELSE p0
        IN  /\ prog' = [prog EXCEPT ![modulePath] = parsed]
            /\ left' = left - Cost(modulePath, parsed)
            /\ moduleQueue' = p.moduleQueue
            /\ modules' = p.modules
            /\ namespaces' = p.namespaces
            /\ declarations' = p.declarations
            /\ pureForwards' = p.pureForwards
            /\ diagnostics' = p.diagnostics
            /\ ndeps' = p.ndeps
            /\ phase' = IF failed /\ modulePath = Entry THEN "aborted"
                        ELSE IF p.moduleQueue = <<>> THEN "graph"
                        ELSE "enum"
    /\ UNCHANGED << tokens, parseState, lookaheadIter, backtrackIter, order, nameTarget, ranges, files, pf, cur, stack, first >>

\* ------------------------------------------------- the pure-forward graph
RECURSIVE Perms(_)
Perms(S) ==
    IF S = {} THEN {<<>>}
    ELSE UNION {{<<x>> \o q : q \in Perms(S \ {x})} : x \in S}

\* the elements of S in the order of the sequence pr
OrderBy(S, pr) == SelectSeq(pr, LAMBDA x : x \in S)

\* PureForwardGraph::new
NewGraph(size) == [size |-> size, edges |-> {}, duplicate |-> FALSE]

HasForward(g, exporter, forwarder) ==
    \E e \in g.edges : e.exporter = exporter /\ e.forwarder = forwarder

GetForward(g, exporter, forwarder) ==
    CHOOSE e \in g.edges : e.exporter = exporter /\ e.forwarder = forwarder

\* add_forward: a second forward with the same key is a panic
GraphAddForward(g, exporter, forwarder, fwd) ==
    IF HasForward(g, exporter, forwarder)
    THEN [g EXCEPT !.duplicate = TRUE]
    ELSE [g EXCEPT !.edges = @ \cup
            {[exporter |-> exporter, forwarder |-> forwarder,
              exportModule |-> fwd.exportModule]}]

GetConsumers(g, exporter) == {e.forwarder : e \in {x \in g.edges : x.exporter = exporter}}
GetSuppliers(g, forwarder) == {e.exporter : e \in {x \in g.edges : x.forwarder = forwarder}}

NsIds(g) == 0..(g.size - 1)

\* the orders in which the keys of the map may come out, per namespace
RECURSIVE ConsumerOrdersUpTo(_, _)
ConsumerOrdersUpTo(g, k) ==
    IF k = 0 THEN {<<>>}
    ELSE {Append(q, p) : q \in ConsumerOrdersUpTo(g, k - 1),
                         p \in Perms(GetConsumers(g, k - 1))}

RECURSIVE SupplierOrdersUpTo(_, _)
SupplierOrdersUpTo(g, k) ==
    IF k = 0 THEN {<<>>}
    ELSE {Append(q, p) : q \in SupplierOrdersUpTo(g, k - 1),
                         p \in Perms(GetSuppliers(g, k - 1))}

ConsumerOrders(g) ==
    {[n \in NsIds(g) |-> q[n + 1]] : q \in ConsumerOrdersUpTo(g, g.size)}
SupplierOrders(g) ==
    {[n \in NsIds(g) |-> q[n + 1]] : q \in SupplierOrdersUpTo(g, g.size)}

\* the index of the first cycle that holds a member of the path slice, or 0
FindExisting(cycleList, slice) ==
    LET hits == {i \in 1..Len(cycleList) : cycleList[i] \cap slice # {}}
    IN  IF hits = {} THEN 0 ELSE CHOOSE i \in hits : \A j \in hits : i <= j

PathIndex(path, n) ==
    LET hits == {i \in 1..Len(path) : path[i] = n}
    IN  IF hits = {} THEN 0 ELSE CHOOSE i \in hits : \A j \in hits : i <= j

\* the cycle taken from the path without the consumer itself
MergeCycleAfterConsumer(cv, consumerIndex) ==
    LET cycle == {cv.path[i] : i \in (consumerIndex + 1)..Len(cv.path)}
        existing == FindExisting(cv.cycles, cycle)
    IN  IF existing # 0
        THEN [cv EXCEPT !.cycles[existing] = @ \cup cycle]
        ELSE [cv EXCEPT !.cycles = Append(@, cycle)]

\* the body of the loop of cycles_visitor for a consumer found on the path
MergeCycle(cv, consumerIndex) ==
    LET cycle == {cv.path[i] : i \in consumerIndex..Len(cv.path)}
        existing == FindExisting(cv.cycles, cycle)
    IN  IF existing # 0
        THEN [cv EXCEPT !.cycles[existing] = @ \cup cycle]
        ELSE [cv EXCEPT !.cycles = Append(@, cycle)]

RECURSIVE CyclesVisitor(_, _, _, _)
RECURSIVE VisitConsumers(_, _, _, _, _)
\* cv: [path, visited, cycles]; co: the order of the consumers of each namespace
CyclesVisitor(g, co, ns, cv) ==
    IF ns >= g.size \/ ns \in cv.visited THEN cv
    ELSE LET c1 == VisitConsumers(g, co, ns, co[ns], [cv EXCEPT !.path = Append(@, ns)])
             c2 == [c1 EXCEPT !.path = SubSeq(@, 1, Len(@) - 1),
                              !.visited = @ \cup {ns}]
         IN  IF Len(c2.path) = 0 THEN CyclesVisitor(g, co, ns + 1, c2) ELSE c2

VisitConsumers(g, co, ns, todo, cv) ==
    IF todo = <<>> THEN cv
    ELSE LET consumer == Head(todo)
             consumerIndex == PathIndex(cv.path, consumer)
             next == IF consumer = ns THEN cv
                     ELSE IF consumerIndex # 0 THEN MergeCycle(cv, consumerIndex)
                     ELSE CyclesVisitor(g, co, consumer, cv)
         IN  VisitConsumers(g, co, ns, Tail(todo), next)

\* the map of get_cycles: a later cycle of the list replaces an earlier entry
CycleMap(g, cycleList) ==
    [n \in NsIds(g) |->
        LET hits == {i \in 1..Len(cycleList) : n \in cycleList[i]}
        IN  IF hits = {} THEN {}
            ELSE cycleList[CHOOSE i \in hits : \A j \in hits : i >= j]]

\* get_cycles: [list, map, visited]
GetCycles(g, co) ==
    LET cv == CyclesVisitor(g, co, 0, [path |-> <<>>, visited |-> {}, cycles |-> <<>>])
    IN  [list |-> cv.cycles, map |-> CycleMap(g, cv.cycles), visited |-> cv.visited]

\* ------------------------------------------------ pure-forward replacement
PureForwardReplacement(forwardNamespace, forwardName, exportModule, id) ==
    Dep("PureForwardReplacement", forwardNamespace, forwardName, exportModule,
        forwardName, id)

\* the replacement dependency queued in the local target of the name
EnsureLocalDependency(rp, ns, exp, forwardNamespace, exportModule) ==
    LET fwd == PureForwardReplacement(forwardNamespace, exp, exportModule, rp.ndeps)
        t == GetTarget(rp.namespaces[ns + 1].locals, exp)
    IN  [rp EXCEPT !.namespaces = MutateLocalTarget(@, ns, exp, AddDependency(t, fwd)),
                   !.ndeps = @ + 1]

\* ensureExportTarget(exp, _ => _.addDependency(fwd)) on namespace ns
EnsureExportDependency(rp, ns, exp, forwardNamespace, exportModule) ==
    LET fwd == PureForwardReplacement(forwardNamespace, exp, exportModule, rp.ndeps)
        t == GetTarget(rp.namespaces[ns + 1].exports, exp)
    IN  [rp EXCEPT !.namespaces = MutateExportTarget(@, ns, exp, AddDependency(t, fwd)),
                   !.ndeps = @ + 1]

\* the pairs [supplier, export name] of a supplier, in key order
ExportPairs(rp, supplier, pn) ==
    LET keys == OrderBy(ExportKeys(rp.namespaces, supplier), pn)
    IN  [i \in 1..Len(keys) |-> <<supplier, keys[i]>>]

RECURSIVE AddNamedForwards(_, _, _, _)
\* acyclic branch: a named forward for each of the supplier's exports
AddNamedForwards(rp, ns, keys, exportModule) ==
    IF keys = <<>> THEN rp
    ELSE AddNamedForwards(EnsureExportDependency(rp, ns, Head(keys), ns, exportModule),
                          ns, Tail(keys), exportModule)

RECURSIVE AddMemberForwards(_, _, _, _, _, _)
\* cyclic branch, one member: a forward for each pair of the shared pool
AddMemberForwards(rp, ns, member, pairs, g, directSuppliers) ==
    IF pairs = <<>> \/ rp.crashed THEN rp
    ELSE LET supplier == Head(pairs)[1]
             exp == Head(pairs)[2]
             inCycle == SelectSeq(directSuppliers, LAMBDA x : x \in rp.cycle)
             direct == \E i \in 1..Len(directSuppliers) : directSuppliers[i] = supplier
             next ==
                IF member = supplier THEN rp
                ELSE IF ~direct /\ inCycle = <<>> THEN [rp EXCEPT !.crashed = TRUE]
                ELSE LET pure == GetForward(g, IF direct THEN supplier ELSE inCycle[1],
                                            member)
                     IN  EnsureExportDependency(rp, ns, exp, member, pure.exportModule)
         IN  AddMemberForwards(next, ns, member, Tail(pairs), g, directSuppliers)

RECURSIVE AddCycleForwards(_, _, _, _, _, _)
AddCycleForwards(rp, ns, members, pairs, g, so) ==
    IF members = <<>> \/ rp.crashed THEN rp
    ELSE LET member == Head(members)
             r1 == AddMemberForwards(rp, ns, member, pairs, g, so[member])
         IN  AddCycleForwards([r1 EXCEPT !.visited = @ \cup {member}],
                              ns, Tail(members), pairs, g, so)

RECURSIVE ReplacePureForwards(_, _, _, _, _, _)
RECURSIVE ExpandSuppliers(_, _, _, _, _, _, _)
RECURSIVE GatherSuppliers(_, _, _, _, _, _, _, _)
\* rp: [namespaces, visited, ndeps, overflow, crashed, cycle]; o: the iteration
\* orders [so, pr, pm, pn]; stk: the namespaces of the pending calls
ReplacePureForwards(ns, rp, g, cycles, o, stk) ==
    IF rp.overflow \/ rp.crashed \/ ns \in rp.visited THEN rp
    ELSE IF ns \in stk THEN [rp EXCEPT !.overflow = TRUE]
    ELSE LET cycle == cycles[ns]
             r1 == IF cycle # {}
                   THEN LET suppliers == cycle \cup UNION {GetSuppliers(g, m) : m \in cycle}
                            ga == GatherSuppliers(ns, rp, g, cycles, o, stk \cup {ns},
                                                  OrderBy(suppliers, o.pr), <<>>)
                        IN  AddCycleForwards([ga.rp EXCEPT !.cycle = cycle], ns,
                                             OrderBy(cycle, o.pm), ga.exports, g, o.so)
                   ELSE ExpandSuppliers(ns, rp, g, cycles, o, stk \cup {ns}, o.so[ns])
         IN  IF r1.overflow \/ r1.crashed THEN r1
             ELSE [r1 EXCEPT !.visited = @ \cup {ns}]

\* cyclic branch: the shared pool of exports of the suppliers of the cycle
GatherSuppliers(ns, rp, g, cycles, o, stk, todo, exports) ==
    IF todo = <<>> \/ rp.overflow \/ rp.crashed THEN [rp |-> rp, exports |-> exports]
    ELSE LET supplier == Head(todo)
             r1 == IF supplier \notin cycles[ns]
                   THEN ReplacePureForwards(supplier, rp, g, cycles, o, stk)
                   ELSE rp
         IN  GatherSuppliers(ns, r1, g, cycles, o, stk, Tail(todo),
                             exports \o ExportPairs(r1, supplier, o.pn))

\* acyclic branch with the names of the supplier read before it is expanded
ExpandSuppliersLate(ns, rp, g, cycles, o, stk, todo) ==
    IF todo = <<>> \/ rp.overflow \/ rp.crashed THEN rp
    ELSE LET supplier == Head(todo)
             r1 == ReplacePureForwards(supplier, rp, g, cycles, o, stk)
             pureFwd == GetForward(g, supplier, ns)
             keys == OrderBy(ExportKeys(rp.namespaces, supplier), o.pn)
             r2 == IF r1.overflow \/ r1.crashed THEN r1
                   ELSE AddNamedForwards(r1, ns, keys, pureFwd.exportModule)
         IN  ExpandSuppliers(ns, r2, g, cycles, o, stk, Tail(todo))

\* acyclic branch: each supplier is expanded, then forwarded name by name
ExpandSuppliers(ns, rp, g, cycles, o, stk, todo) ==
    IF todo = <<>> \/ rp.overflow \/ rp.crashed THEN rp
    ELSE LET supplier == Head(todo)
             r1 == ReplacePureForwards(supplier, rp, g, cycles, o, stk)
             pureFwd == GetForward(g, supplier, ns)
             keys == OrderBy(ExportKeys(r1.namespaces, supplier), o.pn)
             r2 == IF r1.overflow \/ r1.crashed THEN r1
                   ELSE AddNamedForwards(r1, ns, keys, pureFwd.exportModule)
         IN  ExpandSuppliers(ns, r2, g, cycles, o, stk, Tail(todo))

RECURSIVE ReplaceAll(_, _, _, _, _)
\* processPureForwards, the loop over all namespaces
ReplaceAll(ns, rp, g, cycles, o) ==
    IF ns >= g.size THEN rp
    ELSE ReplaceAll(ns + 1, ReplacePureForwards(ns, rp, g, cycles, o, {}), g, cycles, o)

RECURSIVE BuildGraph(_, _, _)
\* processPureForwards, the loop over the pure forwards: [graph, diagnostics]
BuildGraph(fwds, b, mods) ==
    IF fwds = <<>> THEN b
    ELSE LET fwd == Head(fwds)
             moduleRef == mods[fwd.exportModule]
             next == IF moduleRef.status # "Success"
                     THEN [b EXCEPT !.diagnostics =
                              Append(@, Diag("Unresolved", fwd.forwardNamespace, "*",
                                             fwd.exportModule, "moduleName"))]
                     ELSE [b EXCEPT !.graph =
                              GraphAddForward(@, moduleRef.namespaceId,
                                              fwd.forwardNamespace, fwd)]
         IN  BuildGraph(Tail(fwds), next, mods)

NoPf == [graph |-> NewGraph(0), list |-> <<>>, map |-> <<>>, visited |-> {}]
NoCur == [ns |-> 0, loop |-> "exports", todo |-> {}]
NameSeq == <<"v", "z">>

\* processPureForwards, then the start of the reduce over the namespaces
ProcessPureForwards ==
    /\ phase = "graph"
    /\ LET b == BuildGraph(pureForwards,
                           [graph |-> NewGraph(Len(namespaces)), diagnostics |-> diagnostics],
                           modules)
           g == b.graph
           ids == [i \in 1..g.size |-> i - 1]
       IN  IF g.duplicate
           THEN /\ phase' = "panic"
                /\ diagnostics' = b.diagnostics
                /\ pf' = [pf EXCEPT !.graph = g]
                /\ UNCHANGED << tokens, parseState, lookaheadIter, backtrackIter, order, nameTarget, ranges, namespaces, ndeps, cur >>
           ELSE \E co \in ConsumerOrders(g), so \in SupplierOrders(g) :
                LET cy == GetCycles(g, co)
                    cyclic == cy.list # <<>>
                IN  \E pr \in IF cyclic THEN Perms(NsIds(g)) ELSE {ids},
                       pm \in IF cyclic THEN Perms(NsIds(g)) ELSE {ids},
                       pn \in IF g.edges # {} THEN Perms(Names) ELSE {NameSeq} :
                    LET o == [so |-> so, pr |-> pr, pm |-> pm, pn |-> pn]
                        rp == ReplaceAll(0, [namespaces |-> namespaces, visited |-> {},
                                             ndeps |-> ndeps, overflow |-> FALSE,
                                             crashed |-> FALSE, cycle |-> {}],
                                         g, cy.map, o)
                    IN  /\ phase' = IF rp.overflow THEN "overflow"
                                    ELSE IF rp.crashed THEN "crashed"
                                    ELSE "resolve"
                        /\ diagnostics' = b.diagnostics
                        /\ pf' = [graph |-> g, list |-> cy.list, map |-> cy.map,
                                  visited |-> cy.visited]
                        /\ namespaces' = rp.namespaces
                        /\ ndeps' = rp.ndeps
                        /\ cur' = [ns |-> 0, loop |-> "exports",
                                   todo |-> ExportKeys(rp.namespaces, 0)]
    /\ UNCHANGED << tokens, parseState, lookaheadIter, backtrackIter, order, nameTarget, ranges, files, prog, left, moduleQueue, modules, declarations,
                    pureForwards, stack, first >>

\* ------------------------------------------------- dependency resolution
NoDep == Dep(None, NoId, None, None, None, NoId)

Frame(space, ns, name, chain) ==
    [space |-> space, ns |-> ns, name |-> name, chain |-> chain, pending |-> NoDep]

\* the resolution process as a value
Resolution ==
    [namespaces |-> namespaces, diagnostics |-> diagnostics, crashed |-> FALSE]

TargetOf(nss, space, ns, name) ==
    IF space = "export" THEN nss[ns + 1].exports[name] ELSE nss[ns + 1].locals[name]

\* processImportedName: the references go to the local importName of the
\* importing namespace, the target is the export exportName of exportModule
ProcessImportedName == [write |-> "local", read |-> "export", remote |-> TRUE]

\* processForwardedName, by the common shape of process_dependency: the
\* references go to the export forwardName of the forwarding namespace
ProcessForwardedName == [write |-> "export", read |-> "export", remote |-> TRUE]

\* processPureForwardReplacement, by the common shape: as a forwarded name
ProcessPureForwardReplacement == [write |-> "export", read |-> "export", remote |-> TRUE]

\* processExportedName, by the common shape: local, by local name
ProcessExportedName == [write |-> "export", read |-> "local", remote |-> FALSE]

\* processImportedNamespace: the references go to the local importName, the
\* target is the namespace of exportModule and no name of it
ProcessImportedNamespace == [write |-> "local", read |-> None, remote |-> TRUE]

\* processDependency: the handler of the dependency's class
ProcessDependencyOf(dep) ==
    CASE dep.kind = "ImportedName" -> ProcessImportedName
      [] dep.kind = "ImportedNamespace" -> ProcessImportedNamespace
      [] dep.kind = "ForwardedName" -> ProcessForwardedName
      [] dep.kind = "PureForwardReplacement" -> ProcessPureForwardReplacement
      [] OTHER -> ProcessExportedName

\* the name target a dependency writes its references to
WriteSpace(dep) == ProcessDependencyOf(dep).write
\* the name target a dependency reads: an export of a module, or a local
ReadSpace(dep) == ProcessDependencyOf(dep).read
Remote(dep) == ProcessDependencyOf(dep).remote

\* addLocalReference / addExportReference
AddNameReference(r, space, ns, name, ref) ==
    IF space = "export"
    THEN [r EXCEPT !.namespaces = MutateExportTarget(@, ns, name,
            AddReference(GetTarget(r.namespaces[ns + 1].exports, name), ref))]
    ELSE [r EXCEPT !.namespaces = MutateLocalTarget(@, ns, name,
            AddReference(GetTarget(r.namespaces[ns + 1].locals, name), ref))]

AddDepReference(r, dep, kind, decl) ==
    AddNameReference(r, WriteSpace(dep), dep.ns, dep.name,
                     Ref(kind, dep.module, dep.target, decl))

\* addDiagnostic with every diagnostic at the export name token
AddDiagnosticAtName(r, kind, dep) ==
    [r EXCEPT !.diagnostics = Append(@, Diag(kind, dep.ns, dep.name, dep.module, "name"))]

\* addDiagnostic: a missing module is reported at exportModuleLocation, the
\* other findings at exportName.location
AddDiagnostic(r, kind, dep) ==
    [r EXCEPT !.diagnostics =
        Append(@, Diag(kind, dep.ns, dep.name, dep.module,
                       IF kind = "MissingModule" THEN "moduleName" ELSE "name"))]

InChain(chain, dep) == \E i \in 1..Len(chain) : chain[i].id = dep.id

RECURSIVE AddResolvedToFirst(_, _, _)
\* a reference for each resolved reference of the target, each naming the
\* declaration 0
AddResolvedToFirst(r, dep, refs) ==
    IF refs = <<>> THEN r
    ELSE AddResolvedToFirst(
            IF RefStatus(Head(refs)) = "FullyResolved"
            THEN AddDepReference(r, dep, IF Remote(dep) THEN "RemoteName" ELSE "LocalName", 0)
            ELSE r,
            dep, Tail(refs))

RECURSIVE AddResolvedForAll(_, _, _)
\* a reference for every reference of the target, whatever its status
AddResolvedForAll(r, dep, refs) ==
    IF refs = <<>> THEN r
    ELSE AddResolvedForAll(
            AddDepReference(r, dep, IF Remote(dep) THEN "RemoteName" ELSE "LocalName",
                            Head(refs).decl),
            dep, Tail(refs))

RECURSIVE AddResolved(_, _, _)
\* a reference for each resolved reference of the target
AddResolved(r, dep, refs) ==
    IF refs = <<>> THEN r
    ELSE AddResolved(
            IF RefStatus(Head(refs)) = "FullyResolved"
            THEN AddDepReference(r, dep, IF Remote(dep) THEN "RemoteName" ELSE "LocalName",
                                 Head(refs).decl)
            ELSE r,
            dep, Tail(refs))

\* the switch handing a dangling target on as a missing export
PropagateDangling(r, dep, exp) ==
    CASE exp.status = "FullyResolved" -> AddResolved(r, dep, exp.references)
      [] exp.status = "Dangling" -> AddDepReference(r, dep, "MissingExport", NoId)
      [] exp.status = "Empty" ->
            AddDepReference(r, dep, IF Remote(dep) THEN "EmptyRemote" ELSE "EmptyLocal", NoId)
      [] exp.status = "Circular" ->
            AddDepReference(r, dep, IF Remote(dep) THEN "CircularRemote" ELSE "CircularLocal",
                            NoId)
      [] OTHER -> [r EXCEPT !.crashed = TRUE]

\* the switch with a diagnostic of its own for a dangling or empty target
PropagateWithDiagnostic(r, dep, exp) ==
    CASE exp.status = "FullyResolved" -> AddResolved(r, dep, exp.references)
      [] exp.status \in {"Dangling", "Empty"} ->
            AddDiagnostic(
                AddDepReference(r, dep, IF Remote(dep) THEN "EmptyRemote" ELSE "EmptyLocal",
                                NoId),
                "MissingExport", dep)
      [] exp.status = "Circular" ->
            AddDepReference(r, dep, IF Remote(dep) THEN "CircularRemote" ELSE "CircularLocal",
                            NoId)
      [] OTHER -> [r EXCEPT !.crashed = TRUE]

\* the switch on the aggregate status of the target, after the recursive call
Propagate(r, dep, exp) ==
    CASE exp.status = "FullyResolved" -> AddResolved(r, dep, exp.references)
      [] exp.status \in {"Dangling", "Empty"} ->
            AddDepReference(r, dep, IF Remote(dep) THEN "EmptyRemote" ELSE "EmptyLocal", NoId)
      [] exp.status = "Circular" ->
            AddDepReference(r, dep, IF Remote(dep) THEN "CircularRemote" ELSE "CircularLocal",
                            NoId)
      [] OTHER -> [r EXCEPT !.crashed = TRUE]

\* the namespace a dependency reads from, NoId when the module is not Success
ReadNamespace(dep) ==
    IF ~Remote(dep) THEN dep.ns
    ELSE IF dep.module \notin Paths \/ modules[dep.module].status # "Success" THEN NoId
    ELSE modules[dep.module].namespaceId

\* the checks with a dependency on the namespace's own module taken as circular
DecideSelfAsCircular(r, dep, chain) ==
    IF dep.kind = "ImportedNamespace"
        THEN IF ReadNamespace(dep) = NoId THEN "module" ELSE "undefined"
    ELSE IF InChain(chain, dep) \/ (Remote(dep) /\ ReadNamespace(dep) = dep.ns) THEN "circular"
    ELSE IF ReadNamespace(dep) = NoId THEN "module"
    ELSE IF TargetOf(r.namespaces, ReadSpace(dep), ReadNamespace(dep), dep.target) = Absent
        THEN "missing"
    ELSE "recurse"

\* processImportedName up to the recursive call: what is decided without it
\* (CircularRemote, MissingModule, MissingExport), or "recurse".
\* processImportedNamespace: the check of the module, after which the function
\* ends without a return statement ("undefined")
Decide(r, dep, chain) ==
    IF dep.kind = "ImportedNamespace"
        THEN IF ReadNamespace(dep) = NoId THEN "module" ELSE "undefined"
    ELSE IF InChain(chain, dep) THEN "circular"
    ELSE IF ReadNamespace(dep) = NoId THEN "module"
    ELSE IF TargetOf(r.namespaces, ReadSpace(dep), ReadNamespace(dep), dep.target) = Absent
        THEN "missing"
    ELSE "recurse"

\* the dangling checks with the missing export recorded as a missing module
DecidedAsMissingModule(r, dep, how) ==
    CASE how = "circular" ->
            AddDiagnostic(
                AddDepReference(r, dep,
                    IF Remote(dep) THEN "CircularRemote" ELSE "CircularLocal", NoId),
                "Circular", dep)
      [] how = "undefined" -> [r EXCEPT !.crashed = TRUE]
      [] OTHER ->
            AddDiagnostic(AddDepReference(r, dep, "MissingModule", NoId),
                          "MissingModule", dep)

\* the reference and the diagnostic of the check that stopped the dependency
Decided(r, dep, how) ==
    CASE how = "circular" ->
            AddDiagnostic(
                AddDepReference(r, dep,
                    IF Remote(dep) THEN "CircularRemote" ELSE "CircularLocal", NoId),
                "Circular", dep)
      [] how = "module" /\ dep.kind = "ImportedNamespace" ->
            AddDiagnostic(
                AddNameReference(r, WriteSpace(dep), dep.ns, dep.name,
                                 Ref("MissingModule", dep.module, None, NoId)),
                "MissingModule", dep)
      [] how = "module" ->
            AddDiagnostic(AddDepReference(r, dep, "MissingModule", NoId),
                          "MissingModule", dep)
      [] how = "undefined" -> [r EXCEPT !.crashed = TRUE]
      [] OTHER ->
            AddDiagnostic(
                AddDepReference(r, dep,
                    IF Remote(dep) THEN "MissingExport" ELSE "MissingLocal", NoId),
                IF Remote(dep) THEN "MissingExport" ELSE "MissingLocal", dep)

IsNameDone(nss, space, ns, name) == TargetOf(nss, space, ns, name).status # "NotResolved"

RemoveDependency(r, space, ns, name) ==
    LET t == TargetOf(r.namespaces, space, ns, name)
        t1 == [t EXCEPT !.dependencies = Tail(@)]
    IN  [r EXCEPT !.namespaces =
            IF space = "export" THEN MutateExportTarget(@, ns, name, t1)
            ELSE MutateLocalTarget(@, ns, name, t1)]

SetStatus(r, space, ns, name) ==
    LET t1 == SetAggregateStatus(TargetOf(r.namespaces, space, ns, name))
    IN  [r EXCEPT !.namespaces =
            IF space = "export" THEN MutateExportTarget(@, ns, name, t1)
            ELSE MutateLocalTarget(@, ns, name, t1)]

Top == stack[Len(stack)]

\* processNamespace: the next name of the loop is handed to process*Name
StartName ==
    /\ phase = "resolve"
    /\ stack = <<>>
    /\ \E name \in cur.todo :
        LET space == IF cur.loop = "exports" THEN "export" ELSE "local"
        IN  /\ cur' = [cur EXCEPT !.todo = @ \ {name}]
            /\ stack' = IF IsNameDone(namespaces, space, cur.ns, name) THEN <<>>
                        ELSE << Frame(space, cur.ns, name, <<>>) >>
    /\ UNCHANGED << tokens, parseState, lookaheadIter, backtrackIter, order, nameTarget, ranges, files, prog, left, phase, moduleQueue, modules, namespaces,
                    declarations, pureForwards, diagnostics, ndeps, pf, first >>

\* processNamespace marking the module of a finished namespace fully resolved
NextLoopMarkingResolved ==
    /\ phase = "resolve"
    /\ stack = <<>>
    /\ cur.todo = {}
    /\ IF cur.loop = "exports"
       THEN /\ cur' = [cur EXCEPT !.loop = "locals", !.todo = LocalKeys(namespaces, cur.ns)]
            /\ phase' = phase
            /\ modules' = modules
       ELSE /\ modules' = [modules EXCEPT ![namespaces[cur.ns + 1].path].fullyResolved = TRUE]
            /\ IF cur.ns + 1 < Len(namespaces)
               THEN /\ cur' = [ns |-> cur.ns + 1, loop |-> "exports",
                               todo |-> ExportKeys(namespaces, cur.ns + 1)]
                    /\ phase' = phase
               ELSE /\ cur' = NoCur
                    /\ phase' = "done"
    /\ UNCHANGED << tokens, parseState, lookaheadIter, backtrackIter, order, nameTarget, ranges, files, prog, left, moduleQueue, namespaces,
                    declarations, pureForwards, diagnostics, ndeps, pf, stack, first >>

\* processNamespace: exports, then locals, then the next namespace
NextLoop ==
    /\ phase = "resolve"
    /\ stack = <<>>
    /\ cur.todo = {}
    /\ IF cur.loop = "exports"
       THEN /\ cur' = [cur EXCEPT !.loop = "locals", !.todo = LocalKeys(namespaces, cur.ns)]
            /\ phase' = phase
       ELSE IF cur.ns + 1 < Len(namespaces)
       THEN /\ cur' = [ns |-> cur.ns + 1, loop |-> "exports",
                       todo |-> ExportKeys(namespaces, cur.ns + 1)]
            /\ phase' = phase
       ELSE /\ cur' = NoCur
            /\ phase' = "done"
    /\ UNCHANGED << tokens, parseState, lookaheadIter, backtrackIter, order, nameTarget, ranges, files, prog, left, moduleQueue, modules, namespaces,
                    declarations, pureForwards, diagnostics, ndeps, pf, stack, first >>

\* one round of the while loop of process*Name: the first dependency is taken
\* from the queue and processed up to its recursive call
ProcessDependency ==
    /\ phase = "resolve"
    /\ stack # <<>>
    /\ TargetOf(namespaces, Top.space, Top.ns, Top.name).dependencies # <<>>
    /\ LET f == Top
           dep == Head(TargetOf(namespaces, f.space, f.ns, f.name).dependencies)
           r0 == RemoveDependency(Resolution, f.space, f.ns, f.name)
           how == Decide(r0, dep, f.chain)
           callee == TargetOf(r0.namespaces, ReadSpace(dep), ReadNamespace(dep), dep.target)
           r1 == IF how # "recurse" THEN Decided(r0, dep, how)
                 ELSE IF callee.status # "NotResolved" THEN Propagate(r0, dep, callee)
                 ELSE r0
       IN  /\ namespaces' = r1.namespaces
           /\ diagnostics' = r1.diagnostics
           /\ stack' = IF how = "recurse" /\ callee.status = "NotResolved"
                       THEN Append([stack EXCEPT ![Len(stack)].pending = dep],
                                   Frame(ReadSpace(dep), ReadNamespace(dep), dep.target,
                                         Append(f.chain, dep)))
                       ELSE stack
           /\ phase' = IF r1.crashed THEN "crashed" ELSE phase
    /\ UNCHANGED << tokens, parseState, lookaheadIter, backtrackIter, order, nameTarget, ranges, files, prog, left, moduleQueue, modules, declarations,
                    pureForwards, ndeps, pf, cur, first >>

\* the queue of the name is empty: its aggregate status is set, the call
\* returns and the caller adds the references for the dependency it waits on
FinishName ==
    /\ phase = "resolve"
    /\ stack # <<>>
    /\ TargetOf(namespaces, Top.space, Top.ns, Top.name).dependencies = <<>>
    /\ LET f == Top
           r0 == SetStatus(Resolution, f.space, f.ns, f.name)
           rest == SubSeq(stack, 1, Len(stack) - 1)
           r1 == IF rest = <<>> THEN r0
                 ELSE Propagate(r0, rest[Len(rest)].pending,
                                TargetOf(r0.namespaces, f.space, f.ns, f.name))
       IN  /\ namespaces' = r1.namespaces
           /\ diagnostics' = r1.diagnostics
           /\ stack' = IF rest = <<>> THEN rest
                       ELSE [rest EXCEPT ![Len(rest)].pending = NoDep]
           /\ phase' = IF r1.crashed THEN "crashed" ELSE phase
    /\ UNCHANGED << tokens, parseState, lookaheadIter, backtrackIter, order, nameTarget, ranges, files, prog, left, moduleQueue, modules, declarations,
                    pureForwards, ndeps, pf, cur, first >>

NoModules == [p \in Paths |-> ModuleRef("Absent", NoId, FALSE)]
NoResult == [namespaces |-> <<>>, diagnostics |-> <<>>, run |-> FALSE]
NoOrder == [start |-> NoResult, rest |-> <<>>]

\* an iterator, a parser or a token stream that no one has constructed
NotConstructed == [constructed |-> FALSE]

\* EnumerationProcess::new
Init ==
    /\ files \in SUBSET Paths
    /\ prog = [p \in Paths |-> Unseen]
    /\ left = MaxStmts
    /\ phase = "enum"
    /\ moduleQueue = << Entry >>
    /\ modules = [NoModules EXCEPT ![Entry] = ModuleRef("Referenced", NoId, FALSE)]
    /\ namespaces = <<>>
    /\ declarations = <<>>
    /\ pureForwards = <<>>
    /\ diagnostics = <<>>
    /\ ndeps = 0
    /\ pf = NoPf
    /\ cur = NoCur
    /\ stack = <<>>
    /\ first = NoResult
    /\ ranges = NoRanges
    /\ nameTarget = NewTarget
    /\ order = NoOrder
    /\ backtrackIter = NotConstructed
    /\ lookaheadIter = NotConstructed
    /\ parseState = NotConstructed
    /\ tokens = NotConstructed

Next ==
    \/ Enumerate
    \/ ProcessPureForwards
    \/ StartName
    \/ NextLoop
    \/ ProcessDependency
    \/ FinishName

Spec == Init /\ [][Next]_vars

\* enumeration alone: consumeModuleQueue calls itself until the queue is empty
\* or the entry module has failed, so a round that can be taken is taken
NextEnumeration == Enumerate

SpecEnumeration == Init /\ [][NextEnumeration]_vars /\ WF_vars(Enumerate)

\* ------------------------------------------ the same program, analysed again
\* the run is over: its result is kept and the same files are analysed again
Rerun ==
    /\ phase = "done"
    /\ first = NoResult
    /\ first' = [namespaces |-> namespaces, diagnostics |-> diagnostics, run |-> TRUE]
    /\ phase' = "enum"
    /\ moduleQueue' = << Entry >>
    /\ modules' = [NoModules EXCEPT ![Entry] = ModuleRef("Referenced", NoId, FALSE)]
    /\ namespaces' = <<>>
    /\ declarations' = <<>>
    /\ pureForwards' = <<>>
    /\ diagnostics' = <<>>
    /\ ndeps' = 0
    /\ pf' = NoPf
    /\ cur' = NoCur
    /\ stack' = <<>>
    /\ UNCHANGED << tokens, parseState, lookaheadIter, backtrackIter, order, nameTarget, ranges, files, prog, left >>

NextTwice ==
    \/ Next
    \/ Rerun

SpecTwice == Init /\ [][NextTwice]_vars

\* ------------------------------ the same registries, resolved in another order
\* one loop of processNamespace: the exports or the locals of a namespace
Loop(ns, loop) == [ns |-> ns, loop |-> loop]

\* the loops for the namespaces in the order q, the locals of each namespace
\* before its exports or after them
LoopsOf(q, localsFirst) ==
    [k \in 1..(2 * Len(q)) |->
        Loop(q[(k + 1) \div 2],
             IF (k % 2 = 1) = localsFirst THEN "locals" ELSE "exports")]

Orders == {LoopsOf(q, b) : q \in Perms(0..(Len(namespaces) - 1)), b \in BOOLEAN}

KeysOf(nss, l) == IF l.loop = "exports" THEN ExportKeys(nss, l.ns) ELSE LocalKeys(nss, l.ns)

\* the registries processPureForwards returned are kept
TakeStart ==
    /\ phase = "resolve"
    /\ stack = <<>>
    /\ cur = [ns |-> 0, loop |-> "exports", todo |-> ExportKeys(namespaces, 0)]
    /\ order = NoOrder
    /\ first = NoResult
    /\ order' = [start |-> [namespaces |-> namespaces, diagnostics |-> diagnostics,
                            run |-> TRUE],
                 rest |-> <<>>]
    /\ UNCHANGED << tokens, parseState, lookaheadIter, backtrackIter, files, prog, left, phase, moduleQueue, modules, namespaces,
                    declarations, pureForwards, diagnostics, ndeps, pf, cur, stack,
                    first, ranges, nameTarget >>

\* the run is over: its result is kept, and the registries it started from
\* are resolved again with the loops of processNamespace in some order
ResolveAgain ==
    /\ phase = "done"
    /\ order.start.run
    /\ ~first.run
    /\ first' = [namespaces |-> namespaces, diagnostics |-> diagnostics, run |-> TRUE]
    /\ namespaces' = order.start.namespaces
    /\ diagnostics' = order.start.diagnostics
    /\ phase' = "resolve"
    /\ stack' = <<>>
    /\ \E o \in Orders :
        /\ cur' = [ns |-> Head(o).ns, loop |-> Head(o).loop,
                   todo |-> KeysOf(order.start.namespaces, Head(o))]
        /\ order' = [order EXCEPT !.rest = Tail(o)]
    /\ UNCHANGED << tokens, parseState, lookaheadIter, backtrackIter, files, prog, left, moduleQueue, modules, declarations,
                    pureForwards, ndeps, pf, ranges, nameTarget >>

\* processNamespace in the second run: the next loop of the chosen order
NextLoopInOrder ==
    /\ phase = "resolve"
    /\ first.run
    /\ stack = <<>>
    /\ cur.todo = {}
    /\ IF order.rest = <<>>
       THEN /\ cur' = NoCur
            /\ phase' = "done"
            /\ order' = order
       ELSE /\ cur' = [ns |-> Head(order.rest).ns, loop |-> Head(order.rest).loop,
                       todo |-> KeysOf(namespaces, Head(order.rest))]
            /\ phase' = phase
            /\ order' = [order EXCEPT !.rest = Tail(@)]
    /\ UNCHANGED << tokens, parseState, lookaheadIter, backtrackIter, files, prog, left, moduleQueue, modules, namespaces, declarations,
                    pureForwards, diagnostics, ndeps, pf, stack, first, ranges,
                    nameTarget >>

\* the first run takes the loops in the order of the code
NextLoopOfCode == ~first.run /\ NextLoop

NextOrders ==
    \/ Enumerate
    \/ ProcessPureForwards
    \/ TakeStart
    \/ StartName
    \/ NextLoopOfCode
    \/ ProcessDependency
    \/ FinishName
    \/ ResolveAgain
    \/ NextLoopInOrder

SpecOrders == Init /\ [][NextOrders]_vars

\* ------------------------------------------------ the surrounding pipeline
\* DiagnosticLevel: the discriminants of the enum, compared with >=
LevelRank(level) ==
    CASE level = "Verbose" -> 1
      [] level = "Message" -> 2
      [] level = "Warning" -> 3
      [] level = "Error" -> 4
      [] OTHER -> 5

AtLeast(ds, level) == {k \in 1..Len(ds) : LevelRank(ds[k].level) >= LevelRank(level)}

\* what a pass whose body is not part of the sources may report: nothing, a
\* warning or an error
PassDiagnostics(kind) ==
    { <<>>,
      << [Diag(kind, NoId, None, None, "file") EXCEPT !.level = "Warning"] >>,
      << Diag(kind, NoId, None, None, "file") >> }

\* analyze, pass 3: runs on what resolution returned
Typecheck ==
    /\ phase = "done"
    /\ \E ds \in PassDiagnostics("Typecheck") : diagnostics' = diagnostics \o ds
    /\ phase' = "typechecked"
    /\ UNCHANGED << tokens, parseState, lookaheadIter, backtrackIter, order, nameTarget, ranges, files, prog, left, moduleQueue, modules, namespaces, declarations,
                    pureForwards, ndeps, pf, cur, stack, first >>

\* analyze, pass 4, and the Program with the diagnostics of the four passes
CheckNameClashes ==
    /\ phase = "typechecked"
    /\ \E ds \in PassDiagnostics("NameClash") : diagnostics' = diagnostics \o ds
    /\ phase' = "analyzed"
    /\ UNCHANGED << tokens, parseState, lookaheadIter, backtrackIter, order, nameTarget, ranges, files, prog, left, moduleQueue, modules, namespaces, declarations,
                    pureForwards, ndeps, pf, cur, stack, first >>

\* run_program reading errors only at level Fatal
RunProgramOnFatal ==
    /\ phase \in {"aborted", "analyzed"}
    /\ phase' = IF AtLeast(diagnostics, "Fatal") # {} THEN "failed" ELSE "translate"
    /\ UNCHANGED << tokens, parseState, lookaheadIter, backtrackIter, order, nameTarget, ranges, files, prog, left, moduleQueue, modules, namespaces, declarations,
                    pureForwards, diagnostics, ndeps, pf, cur, stack, first >>

\* run_program on the result of analyze (an enumeration without a result
\* returns from analyze at once): exit code 1 when errCount > 0
RunProgram ==
    /\ phase \in {"aborted", "analyzed"}
    /\ phase' = IF AtLeast(diagnostics, "Error") # {} THEN "failed" ELSE "translate"
    /\ UNCHANGED << tokens, parseState, lookaheadIter, backtrackIter, order, nameTarget, ranges, files, prog, left, moduleQueue, modules, namespaces, declarations,
                    pureForwards, diagnostics, ndeps, pf, cur, stack, first >>

\* translate is unimplemented!(): interpret is never reached
Translate ==
    /\ phase = "translate"
    /\ phase' = "unimplemented"
    /\ UNCHANGED << tokens, parseState, lookaheadIter, backtrackIter, order, nameTarget, ranges, files, prog, left, moduleQueue, modules, namespaces, declarations,
                    pureForwards, diagnostics, ndeps, pf, cur, stack, first >>

NextPipeline ==
    \/ Next
    \/ Typecheck
    \/ CheckNameClashes
    \/ RunProgram
    \/ Translate

SpecPipeline == Init /\ [][NextPipeline]_vars

\* ------------------------------------------------ the cycle detector alone
\* namespaces of a graph
NumNs == 4
\* pure forwards of a graph
MaxEdges == 6

Edge(exporter, forwarder) ==
    [exporter |-> exporter, forwarder |-> forwarder, exportModule |-> None]

AllEdges == {Edge(e, f) : e \in 0..(NumNs - 1), f \in 0..(NumNs - 1)}

\* a graph of NumNs namespaces, built by add_forward from at most MaxEdges
\* pure forwards
InitCycles ==
    /\ files = {}
    /\ prog = [p \in Paths |-> Unseen]
    /\ left = 0
    /\ phase = "cycles"
    /\ moduleQueue = <<>>
    /\ modules = NoModules
    /\ namespaces = <<>>
    /\ declarations = <<>>
    /\ pureForwards = <<>>
    /\ diagnostics = <<>>
    /\ ndeps = 0
    /\ \E es \in {x \in SUBSET AllEdges : Cardinality(x) <= MaxEdges} :
          pf = [NoPf EXCEPT !.graph = [size |-> NumNs, edges |-> es, duplicate |-> FALSE],
                            !.map = [n \in 0..(NumNs - 1) |-> {}]]
    /\ cur = NoCur
    /\ stack = <<>>
    /\ first = NoResult
    /\ ranges = NoRanges
    /\ nameTarget = NewTarget
    /\ order = NoOrder
    /\ backtrackIter = NotConstructed
    /\ lookaheadIter = NotConstructed
    /\ parseState = NotConstructed
    /\ tokens = NotConstructed

\* get_cycles, with the consumers of each namespace in some order
RunGetCycles ==
    /\ phase = "cycles"
    /\ \E co \in ConsumerOrders(pf.graph) :
        LET cy == GetCycles(pf.graph, co)
        IN  pf' = [pf EXCEPT !.list = cy.list, !.map = cy.map, !.visited = cy.visited]
    /\ phase' = "cycled"
    /\ UNCHANGED << tokens, parseState, lookaheadIter, backtrackIter, order, nameTarget, ranges, files, prog, left, moduleQueue, modules, namespaces, declarations,
                    pureForwards, diagnostics, ndeps, cur, stack, first >>

NextCycles == RunGetCycles

SpecCycles == InitCycles /\ [][NextCycles]_vars

\* ------------------------------------------------------- FileRange.merge alone
InitMerge ==
    /\ files = {}
    /\ prog = [p \in Paths |-> Unseen]
    /\ left = 0
    /\ phase = "merge"
    /\ moduleQueue = <<>>
    /\ modules = NoModules
    /\ namespaces = <<>>
    /\ declarations = <<>>
    /\ pureForwards = <<>>
    /\ diagnostics = <<>>
    /\ ndeps = 0
    /\ pf = NoPf
    /\ cur = NoCur
    /\ stack = <<>>
    /\ first = NoResult
    /\ \E a \in FileRanges("a"), b \in FileRanges("a") \cup FileRanges("b") :
          ranges = [self |-> a, location |-> b, merged |-> NoRange]
    /\ nameTarget = NewTarget
    /\ order = NoOrder
    /\ backtrackIter = NotConstructed
    /\ lookaheadIter = NotConstructed
    /\ parseState = NotConstructed
    /\ tokens = NotConstructed

\* self.merge(location): a panic for two files, the merged range otherwise
Merge ==
    /\ phase = "merge"
    /\ IF ranges.self.path # ranges.location.path
       THEN /\ phase' = "panic"
            /\ ranges' = ranges
       ELSE /\ phase' = "merged"
            /\ ranges' = [ranges EXCEPT !.merged = FileRangeMerge(ranges.self, ranges.location)]
    /\ UNCHANGED << tokens, parseState, lookaheadIter, backtrackIter, files, prog, left, moduleQueue, modules, namespaces, declarations,
                    pureForwards, diagnostics, ndeps, pf, cur, stack, first, nameTarget, order >>

NextMerge == Merge

SpecMerge == InitMerge /\ [][NextMerge]_vars

\* ------------------------------------------------ aggregate status alone
\* one name target, any list of references, then its aggregate status, then
\* the switch of processImportedName for a local that imports it
MaxRefs == 3

\* the dependency of the local v of the entry module on the export v of Lib
ImportOfV == Dep("ImportedName", 0, "v", Lib, "v", 0)

\* enum Reference
ReferenceKinds ==
    {"RemoteName", "RemoteNamespace", "LocalName", "LocalDeclaration",
     "MissingModule", "MissingExport", "MissingLocal",
     "CircularRemote", "CircularLocal", "EmptyRemote", "EmptyLocal"}

InitStatus ==
    /\ files = {}
    /\ prog = [p \in Paths |-> Unseen]
    /\ left = 0
    /\ phase = "references"
    /\ moduleQueue = <<>>
    /\ modules = NoModules
    /\ namespaces = << [ModuleNamespace(0, Entry) EXCEPT !.locals["v"] = NewTarget] >>
    /\ declarations = <<>>
    /\ pureForwards = <<>>
    /\ diagnostics = <<>>
    /\ ndeps = 0
    /\ pf = NoPf
    /\ cur = NoCur
    /\ stack = << [Frame("local", 0, "v", <<>>) EXCEPT !.pending = ImportOfV] >>
    /\ first = NoResult
    /\ ranges = NoRanges
    /\ nameTarget = NewTarget
    /\ order = NoOrder
    /\ backtrackIter = NotConstructed
    /\ lookaheadIter = NotConstructed
    /\ parseState = NotConstructed
    /\ tokens = NotConstructed

\* NameTarget::add_reference
PushReference ==
    /\ phase = "references"
    /\ Len(nameTarget.references) < MaxRefs
    /\ \E kind \in ReferenceKinds :
          nameTarget' = AddReference(nameTarget,
              Ref(kind, Lib, "v", IF RefStatus(Ref(kind, Lib, "v", NoId)) = "FullyResolved"
                                   THEN 0 ELSE NoId))
    /\ UNCHANGED << tokens, parseState, lookaheadIter, backtrackIter, files, prog, left, phase, moduleQueue, modules, namespaces,
                    declarations, pureForwards, diagnostics, ndeps, pf, cur, stack,
                    first, ranges, order >>

\* set_aggregate_status, once the references are in
Aggregate ==
    /\ phase = "references"
    /\ phase' = "status"
    /\ nameTarget' = SetAggregateStatus(nameTarget)
    /\ UNCHANGED << tokens, parseState, lookaheadIter, backtrackIter, files, prog, left, moduleQueue, modules, namespaces,
                    declarations, pureForwards, diagnostics, ndeps, pf, cur, stack,
                    first, ranges, order >>

\* processImportedName after the recursive call: the switch on exp.status
SwitchOnStatus ==
    /\ phase = "status"
    /\ LET r == Propagate(Resolution, Top.pending, nameTarget)
       IN  /\ namespaces' = r.namespaces
           /\ diagnostics' = r.diagnostics
           /\ phase' = IF r.crashed THEN "crashed" ELSE "propagated"
    /\ stack' = [stack EXCEPT ![1].pending = NoDep]
    /\ UNCHANGED << tokens, parseState, lookaheadIter, backtrackIter, files, prog, left, moduleQueue, modules, declarations,
                    pureForwards, ndeps, pf, cur, first, ranges, nameTarget,
                    order >>

NextStatus == PushReference \/ Aggregate \/ SwitchOnStatus

SpecStatus == InitStatus /\ [][NextStatus]_vars

\* ------------------------------------------------- nested namespaces
\* enumeration of modules whose declarations include namespaces that nest
MaxNested == 3

\* namespace l { body } (k "namespace"), export n = namespace { body }
\* (k "exportNamespace", anonymous when l is None)
NamespaceNode(k, l, n, body) == [k |-> k, m |-> None, l |-> l, n |-> n, body |-> body]

InnerNamespace == NamespaceNode("namespace", "z", None, << Stmt("decl", None, "v", "v") >>)

Bodies ==
    << <<>>,
       << Stmt("decl", None, "v", "v") >>,
       << Stmt("import", "b", "v", "v") >>,
       << InnerNamespace >>,
       << Stmt("decl", None, "v", "v"), InnerNamespace >>,
       << NamespaceNode("exportNamespace", None, "z", <<>>) >> >>

NestedStmts ==
    << Stmt("import", "b", "v", "v"),
       Stmt("decl", None, "v", "v"),
       Stmt("exportDecl", None, "z", "z") >>
    \o [i \in 1..Len(Bodies) |-> NamespaceNode("namespace", "v", None, Bodies[i])]
    \o << NamespaceNode("exportNamespace", "z", "z", << InnerNamespace >>) >>

NestedContents ==
    {SelectSeq(NestedStmts, LAMBDA x : x \in S) :
        S \in SubsetsUpTo({NestedStmts[i] : i \in 1..Len(NestedStmts)}, MaxNested)}

ImportedContents ==
    { <<>>,
      << Stmt("decl", None, "v", "v") >>,
      << NamespaceNode("namespace", "v", None, << Stmt("decl", None, "v", "v") >>) >> }

\* the files a and b hold what the parser will return for them
InitNested ==
    /\ files = {"a", "b"}
    /\ \E ca \in NestedContents, cb \in ImportedContents :
          prog = [p \in Paths |->
                    IF p = Entry THEN Parsed("ok", ca)
                    ELSE IF p = "b" THEN Parsed("ok", cb)
                    ELSE Unseen]
    /\ left = 0
    /\ phase = "enum"
    /\ moduleQueue = << Entry >>
    /\ modules = [NoModules EXCEPT ![Entry] = ModuleRef("Referenced", NoId, FALSE)]
    /\ namespaces = <<>>
    /\ declarations = <<>>
    /\ pureForwards = <<>>
    /\ diagnostics = <<>>
    /\ ndeps = 0
    /\ pf = NoPf
    /\ cur = NoCur
    /\ stack = <<>>
    /\ first = NoResult
    /\ ranges = NoRanges
    /\ nameTarget = NewTarget
    /\ order = NoOrder
    /\ backtrackIter = NotConstructed
    /\ lookaheadIter = NotConstructed
    /\ parseState = NotConstructed
    /\ tokens = NotConstructed

NextNested == Enumerate

SpecNested == InitNested /\ [][NextNested]_vars

\* ----------------------------------------------------- the utilities, alone
\* the analysis is not running while an iterator, a parser or a token stream
\* is used alone
analysis == << files, prog, left, phase, moduleQueue, modules, namespaces,
               declarations, pureForwards, diagnostics, ndeps, pf, cur, stack,
               first, ranges, nameTarget, order >>

NoAnalysis ==
    /\ files = {}
    /\ prog = [p \in Paths |-> Unseen]
    /\ left = 0
    /\ phase = "utilities"
    /\ moduleQueue = <<>>
    /\ modules = NoModules
    /\ namespaces = <<>>
    /\ declarations = <<>>
    /\ pureForwards = <<>>
    /\ diagnostics = <<>>
    /\ ndeps = 0
    /\ pf = NoPf
    /\ cur = NoCur
    /\ stack = <<>>
    /\ first = NoResult
    /\ ranges = NoRanges
    /\ nameTarget = NewTarget
    /\ order = NoOrder

\* the sequences over S of at most n elements
SeqsUpTo(S, n) == UNION {[1..k -> S] : k \in 0..n}

\* ------------------------------------------------------- BacktrackIterator
MaxItems == 3
MaxCalls == 6
Items == {"x", "y", "z"}

\* IteratorExt::backtrack: the iterator over iter, nothing captured
NewBacktrackIterator(iter) == [iter |-> iter, backtrack |-> <<>>, offset |-> 0]

\* next() that captures an item again when it replays it
BacktrackIteratorNextCapturing(it) ==
    IF it.offset = 0
    THEN IF it.iter # <<>>
         THEN [it |-> [it EXCEPT !.iter = Tail(@), !.backtrack = Append(@, Head(it.iter))],
               item |-> Head(it.iter)]
         ELSE [it |-> it, item |-> None]
    ELSE LET index == Len(it.backtrack) - it.offset
             item == it.backtrack[index + 1]
         IN  [it |-> [it EXCEPT !.offset = @ - 1, !.backtrack = Append(@, item)],
              item |-> item]

\* BacktrackIterator::next: the iterator afterwards and the item returned
BacktrackIteratorNext(it) ==
    IF it.offset = 0
    THEN IF it.iter # <<>>
         THEN [it |-> [it EXCEPT !.iter = Tail(@), !.backtrack = Append(@, Head(it.iter))],
               item |-> Head(it.iter)]
         ELSE [it |-> it, item |-> None]
    ELSE LET index == Len(it.backtrack) - it.offset
             item == it.backtrack[index + 1]
         IN  [it |-> [it EXCEPT !.offset = @ - 1], item |-> item]

\* BacktrackIterator::backtrack: a panic, or the iterator with the new offset
BacktrackIteratorBacktrack(it, count) ==
    LET offset == it.offset + count
    IN  IF offset > Len(it.backtrack)
        THEN [panic |-> TRUE, it |-> it]
        ELSE [panic |-> FALSE, it |-> [it EXCEPT !.offset = offset]]

\* no call of backtrack yet
NoMark == [at |-> NoId, count |-> 0, pending |-> 0, captured |-> <<>>]

InitBacktrack ==
    /\ NoAnalysis
    /\ \E source \in SeqsUpTo(Items, MaxItems) :
          backtrackIter = [constructed |-> TRUE, it |-> NewBacktrackIterator(source),
                           source |-> source, yielded |-> <<>>, calls |-> 0,
                           panicked |-> FALSE, mark |-> NoMark]
    /\ lookaheadIter = NotConstructed
    /\ parseState = NotConstructed
    /\ tokens = NotConstructed

\* a call of next()
CallNext ==
    /\ backtrackIter.constructed
    /\ ~backtrackIter.panicked
    /\ backtrackIter.calls < MaxCalls
    /\ LET r == BacktrackIteratorNext(backtrackIter.it)
       IN  backtrackIter' = [backtrackIter EXCEPT !.it = r.it,
                                                  !.yielded = Append(@, r.item),
                                                  !.calls = @ + 1]
    /\ UNCHANGED << analysis, lookaheadIter, parseState, tokens >>

\* a call of backtrack(count); mark keeps where the call was made
CallBacktrack ==
    /\ backtrackIter.constructed
    /\ ~backtrackIter.panicked
    /\ backtrackIter.calls < MaxCalls
    /\ \E count \in 0..MaxItems :
          LET r == BacktrackIteratorBacktrack(backtrackIter.it, count)
          IN  backtrackIter' =
                  IF r.panic
                  THEN [backtrackIter EXCEPT !.panicked = TRUE, !.calls = @ + 1]
                  ELSE [backtrackIter EXCEPT
                            !.it = r.it, !.calls = @ + 1,
                            !.mark = [at |-> Len(backtrackIter.yielded), count |-> count,
                                      pending |-> backtrackIter.it.offset,
                                      captured |-> backtrackIter.it.backtrack]]
    /\ UNCHANGED << analysis, lookaheadIter, parseState, tokens >>

NextBacktrack == CallNext \/ CallBacktrack

SpecBacktrack == InitBacktrack /\ [][NextBacktrack]_vars

\* ------------------------------------------------------- LookaheadIterator
\* IteratorExt::lookahead: the iterator over iter, nothing looked at
NewLookaheadIterator(iter) == [iter |-> iter, lookahead |-> <<>>]

\* a - b in usize: the difference, or 2^64 - n when b is the larger one
UsizeSub(a, b) ==
    IF a >= b THEN [wrapped |-> FALSE, n |-> a - b] ELSE [wrapped |-> TRUE, n |-> b - a]

\* the first n elements of q, all of q when it has fewer
TakeFirst(q, n) == SubSeq(q, 1, IF n < Len(q) THEN n ELSE Len(q))

\* n times None
Nones(n) == [i \in 1..n |-> None]

\* LookaheadIterator::next: an entry of the lookahead first, the iterator
\* when there is none
LookaheadIteratorNext(it) ==
    IF it.lookahead # <<>>
    THEN [it |-> [it EXCEPT !.lookahead = Tail(@)], item |-> Head(it.lookahead)]
    ELSE IF it.iter # <<>>
         THEN [it |-> [it EXCEPT !.iter = Tail(@)], item |-> Head(it.iter)]
         ELSE [it |-> it, item |-> None]

\* LookaheadIterator::peek: unwrap panics on an entry that is None
LookaheadIteratorPeek(it) ==
    IF it.lookahead # <<>>
    THEN IF Head(it.lookahead) = None
         THEN [outcome |-> "panic", it |-> it, item |-> None]
         ELSE [outcome |-> "ok", it |-> it, item |-> Head(it.lookahead)]
    ELSE IF it.iter # <<>>
         THEN [outcome |-> "ok", it |-> [it EXCEPT !.iter = Tail(@), !.lookahead = << Head(it.iter) >>],
               item |-> Head(it.iter)]
         ELSE [outcome |-> "ok", it |-> it, item |-> None]

\* LookaheadIterator::peeks.  lookahead.len() - count is computed when the
\* lookahead is the shorter one: a build with overflow checks panics there;
\* a build without them takes 2^64 - n items, which is all the iterator has,
\* and pushes None len - count times, which is without end when the lookahead
\* is still the shorter one
LookaheadIteratorPeeks(it, count, build) ==
    IF Len(it.lookahead) < count
    THEN IF build = "debug"
         THEN [outcome |-> "panic", it |-> it, entries |-> <<>>]
         ELSE LET taken == IF UsizeSub(Len(it.lookahead), count).wrapped
                           THEN it.iter
                           ELSE TakeFirst(it.iter, UsizeSub(Len(it.lookahead), count).n)
                  filled == it.lookahead \o taken
                  rest == SubSeq(it.iter, Len(taken) + 1, Len(it.iter))
                  pad == UsizeSub(Len(filled), count)
              IN  IF pad.wrapped
                  THEN [outcome |-> "abort", it |-> [iter |-> rest, lookahead |-> filled],
                        entries |-> <<>>]
                  ELSE LET lookahead == filled \o Nones(pad.n)
                       IN  [outcome |-> "ok", it |-> [iter |-> rest, lookahead |-> lookahead],
                            entries |-> TakeFirst(lookahead, count)]
    ELSE [outcome |-> "ok", it |-> it, entries |-> TakeFirst(it.lookahead, count)]

\* no call of peeks yet
NoPeeks == [at |-> NoId, count |-> 0, outcome |-> "ok", entries |-> <<>>, coming |-> <<>>]

InitLookahead ==
    /\ NoAnalysis
    /\ backtrackIter = NotConstructed
    /\ \E source \in SeqsUpTo(Items, MaxItems), build \in {"debug", "release"} :
          lookaheadIter = [constructed |-> TRUE, build |-> build,
                           it |-> NewLookaheadIterator(source), source |-> source,
                           yielded |-> <<>>, calls |-> 0, outcome |-> "ok",
                           peeked |-> NoPeeks]
    /\ parseState = NotConstructed
    /\ tokens = NotConstructed

\* a call of next()
CallLookaheadNext ==
    /\ lookaheadIter.constructed
    /\ lookaheadIter.outcome = "ok"
    /\ lookaheadIter.calls < MaxCalls
    /\ LET r == LookaheadIteratorNext(lookaheadIter.it)
       IN  lookaheadIter' = [lookaheadIter EXCEPT !.it = r.it,
                                                  !.yielded = Append(@, r.item),
                                                  !.calls = @ + 1]
    /\ UNCHANGED << analysis, backtrackIter, parseState, tokens >>

\* a call of peek()
CallPeek ==
    /\ lookaheadIter.constructed
    /\ lookaheadIter.outcome = "ok"
    /\ lookaheadIter.calls < MaxCalls
    /\ LET r == LookaheadIteratorPeek(lookaheadIter.it)
       IN  lookaheadIter' = [lookaheadIter EXCEPT !.it = r.it,
                                                  !.outcome = r.outcome,
                                                  !.calls = @ + 1]
    /\ UNCHANGED << analysis, backtrackIter, parseState, tokens >>

\* the items the iterator has not yielded yet
Coming(l) == l.it.lookahead \o l.it.iter

\* a call of peeks(count); peeked keeps the call, what it returned and the
\* items that were still to come when it was made
CallPeeks ==
    /\ lookaheadIter.constructed
    /\ lookaheadIter.outcome = "ok"
    /\ lookaheadIter.calls < MaxCalls
    /\ \E count \in 0..MaxItems :
          LET r == LookaheadIteratorPeeks(lookaheadIter.it, count, lookaheadIter.build)
          IN  lookaheadIter' = [lookaheadIter EXCEPT
                                    !.it = r.it, !.outcome = r.outcome, !.calls = @ + 1,
                                    !.peeked = [at |-> Len(lookaheadIter.yielded),
                                                count |-> count, outcome |-> r.outcome,
                                                entries |-> r.entries,
                                                coming |-> Coming(lookaheadIter)]]
    /\ UNCHANGED << analysis, backtrackIter, parseState, tokens >>

NextLookahead == CallLookaheadNext \/ CallPeek \/ CallPeeks

SpecLookahead == InitLookahead /\ [][NextLookahead]_vars

\* -------------------------------------------------------------- ParseState
MaxText == 3
Chars == {"a", "b", "\n"}

\* the parse functions handed to bk and bk_memo: "a" reads one character and
\* succeeds on an a; "line" reads up to and with the next line feed and fails
\* at the end of the text; "a_line" is bk_memo of "a" and then of "line"
Syntaxes == {"a", "line", "a_line"}

\* ParseState::new
NewParseState(text) ==
    [position |-> 0, line |-> 1, column |-> 1, chars |-> text, memo_cache |-> {}]

Success(value, size) == [kind |-> "Success", value |-> value, size |-> size]
Fail(expected, actual) == [kind |-> "Fail", expected |-> expected, actual |-> actual]

\* ParseState::next: the state afterwards and the character, None at the end
ParseStateNext(s) ==
    IF s.position >= Len(s.chars)
    THEN [s |-> s, c |-> None]
    ELSE LET c == s.chars[s.position + 1]
         IN  [s |-> IF c = "\n"
                    THEN [s EXCEPT !.position = @ + 1, !.line = @ + 1, !.column = 1]
                    ELSE [s EXCEPT !.position = @ + 1, !.column = @ + 1],
              c |-> c]

\* ParseState::advance
Advance(s, count) == [s EXCEPT !.position = @ + count]

\* memo_cache.get(&key): the entries of the cache for a key, one at most
Cached(s, id, position) == {e \in s.memo_cache : e.id = id /\ e.position = position}

\* HashMap::insert
Insert(s, id, position, result) ==
    [s EXCEPT !.memo_cache = {e \in @ : ~(e.id = id /\ e.position = position)}
                                 \cup {[id |-> id, position |-> position, result |-> result]}]

RECURSIVE ReadLine(_, _)
RECURSIVE Parse(_, _)
RECURSIVE Bk(_, _)
RECURSIVE BkMemo(_, _)

\* the parse function "line", size characters read so far
ReadLine(s, size) ==
    LET n == ParseStateNext(s)
    IN  IF n.c = None THEN [s |-> n.s, result |-> Fail("line", None)]
        ELSE IF n.c = "\n" THEN [s |-> n.s, result |-> Success("line", size + 1)]
        ELSE ReadLine(n.s, size + 1)

\* op(&mut self): the parse function id run on the state s
Parse(id, s) ==
    IF id = "a"
    THEN LET n == ParseStateNext(s)
         IN  IF n.c = "a" THEN [s |-> n.s, result |-> Success("a", 1)]
             ELSE [s |-> n.s, result |-> Fail("a", n.c)]
    ELSE IF id = "line" THEN ReadLine(s, 0)
    ELSE LET r1 == BkMemo(s, "a")
         IN  IF r1.result.kind = "Fail" THEN r1
             ELSE LET r2 == BkMemo(r1.s, "line")
                  IN  IF r2.result.kind = "Fail" THEN r2
                      ELSE [s |-> r2.s,
                            result |-> Success("a_line", r1.result.size + r2.result.size)]

\* ParseState::bk
Bk(s, id) ==
    LET current == s.position
        r == Parse(id, s)
    IN  IF r.result.kind = "Fail"
        THEN [s |-> [r.s EXCEPT !.position = current], result |-> r.result]
        ELSE r

\* ParseState::bk_memo
BkMemo(s, id) ==
    IF Cached(s, id, s.position) # {}
    THEN LET result == (CHOOSE e \in Cached(s, id, s.position) : TRUE).result
         IN  IF result.kind = "Success"
             THEN [s |-> Advance(s, result.size), result |-> result]
             ELSE [s |-> s, result |-> result]
    ELSE LET r == Bk(s, id)
         IN  [s |-> Insert(r.s, id, s.position, r.result), result |-> r.result]

\* no call yet
NoCall == [op |-> "none", id |-> "a", hit |-> FALSE, before |-> NewParseState(<<>>),
           result |-> Fail("a", None)]

InitParse ==
    /\ NoAnalysis
    /\ backtrackIter = NotConstructed
    /\ lookaheadIter = NotConstructed
    /\ \E text \in SeqsUpTo(Chars, MaxText) :
          parseState = [constructed |-> TRUE, s |-> NewParseState(text), calls |-> 0,
                        last |-> NoCall]
    /\ tokens = NotConstructed

\* a call of next()
CallParseNext ==
    /\ parseState.constructed
    /\ parseState.calls < MaxCalls
    /\ parseState' = [parseState EXCEPT !.s = ParseStateNext(parseState.s).s,
                                        !.calls = @ + 1,
                                        !.last = NoCall]
    /\ UNCHANGED << analysis, backtrackIter, lookaheadIter, tokens >>

\* a call of bk with a parse function; last keeps the call and its result
CallBk ==
    /\ parseState.constructed
    /\ parseState.calls < MaxCalls
    /\ \E id \in Syntaxes :
          LET r == Bk(parseState.s, id)
          IN  parseState' = [parseState EXCEPT
                                 !.s = r.s, !.calls = @ + 1,
                                 !.last = [op |-> "bk", id |-> id, hit |-> FALSE,
                                           before |-> parseState.s, result |-> r.result]]
    /\ UNCHANGED << analysis, backtrackIter, lookaheadIter, tokens >>

\* a call of bk_memo with a parse function and its id
CallBkMemo ==
    /\ parseState.constructed
    /\ parseState.calls < MaxCalls
    /\ \E id \in Syntaxes :
          LET r == BkMemo(parseState.s, id)
          IN  parseState' = [parseState EXCEPT
                                 !.s = r.s, !.calls = @ + 1,
                                 !.last = [op |-> "bk_memo", id |-> id,
                                           hit |-> Cached(parseState.s, id, parseState.s.position) # {},
                                           before |-> parseState.s, result |-> r.result]]
    /\ UNCHANGED << analysis, backtrackIter, lookaheadIter, tokens >>

NextParse == CallParseNext \/ CallBk \/ CallBkMemo

SpecParse == InitParse /\ [][NextParse]_vars

\* ------------------------------------------------------------------ Tokens
MaxSource == 4
SourceChars == {"/", "*", "a", "\n"}

\* what next() of a token stream returns
NoItem == [kind |-> "None", type |-> None, image |-> <<>>]
OkToken(type, image) == [kind |-> "Ok", type |-> type, image |-> image]
ErrDiagnostic(c) == [kind |-> "Err", type |-> None, image |-> << c >>]

\* Tokens::from_file_path_no_ignore: the stream over the text of the file
NewTokens(string) == [chars |-> string, terminated |-> FALSE, position |-> << 0, 0 >>]

\* Tokens::look2: the next two characters, None past the end
Look2(t) ==
    << IF Len(t.chars) >= 1 THEN t.chars[1] ELSE None,
       IF Len(t.chars) >= 2 THEN t.chars[2] ELSE None >>

\* Tokens::advance: the character is taken; next_line and next_column return
\* a position that is dropped, self.position stays
TokensAdvance(t) == [t EXCEPT !.chars = Tail(@)]

RECURSIVE ThroughLineFeed(_, _)
\* consume_single_line_comment: the characters up to and with the line feed,
\* or up to the end
ThroughLineFeed(t, image) ==
    IF t.chars = <<>> THEN [t |-> t, image |-> image]
    ELSE IF Head(t.chars) = "\n"
         THEN [t |-> [t EXCEPT !.chars = Tail(@)], image |-> Append(image, "\n")]
         ELSE ThroughLineFeed([t EXCEPT !.chars = Tail(@)], Append(image, Head(t.chars)))

RECURSIVE ThroughCommentEnd(_, _)
\* the loop of consume_multi_line_comment: every character is taken, and the
\* slash after a star ends the comment
ThroughCommentEnd(t, image) ==
    IF t.chars = <<>> THEN [t |-> t, image |-> image]
    ELSE LET ch == Head(t.chars)
             t1 == TokensAdvance(t)
         IN  IF ch = "*" /\ t1.chars # <<>> /\ Head(t1.chars) = "/"
             THEN [t |-> TokensAdvance(t1), image |-> image \o << "*", "/" >>]
             ELSE ThroughCommentEnd(t1, Append(image, ch))

\* Tokens::consume_token.  The range of the diagnostic is computed by
\* compute_range("") as column + 0 - 1 in usize with the column at 0: a build
\* with overflow checks panics there, a build without them wraps and returns
\* the diagnostic
ConsumeToken(t, build) ==
    LET look == Look2(t)
    IN  IF look[1] = None
        THEN [outcome |-> "ok", t |-> [t EXCEPT !.terminated = TRUE],
              item |-> OkToken("Eof", <<>>)]
        ELSE IF look[1] = "/" /\ look[2] = "/"
        THEN LET r == ThroughLineFeed(t, <<>>)
             IN  [outcome |-> "ok", t |-> r.t, item |-> OkToken("Comment", r.image)]
        ELSE IF look[1] = "/" /\ look[2] = "*"
        THEN LET r == ThroughCommentEnd(TokensAdvance(TokensAdvance(t)), << "/", "*" >>)
             IN  [outcome |-> "ok", t |-> r.t, item |-> OkToken("Comment", r.image)]
        ELSE IF UsizeSub(t.position[2] + 0, 1).wrapped /\ build = "debug"
        THEN [outcome |-> "panic", t |-> t, item |-> NoItem]
        ELSE [outcome |-> "ok", t |-> t, item |-> ErrDiagnostic(look[1])]

\* Iterator::next of Tokens
TokensNext(t, build) ==
    IF t.terminated THEN [outcome |-> "ok", t |-> t, item |-> NoItem]
    ELSE ConsumeToken(t, build)

InitTokens ==
    /\ NoAnalysis
    /\ backtrackIter = NotConstructed
    /\ lookaheadIter = NotConstructed
    /\ parseState = NotConstructed
    /\ \E string \in SeqsUpTo(SourceChars, MaxSource), build \in {"debug", "release"} :
          tokens = [constructed |-> TRUE, build |-> build, t |-> NewTokens(string),
                    yielded |-> <<>>, outcome |-> "ok"]

\* a call of next() on the token stream
CallTokensNext ==
    /\ tokens.constructed
    /\ tokens.outcome = "ok"
    /\ Len(tokens.yielded) < MaxCalls
    /\ LET r == TokensNext(tokens.t, tokens.build)
       IN  tokens' = [tokens EXCEPT !.t = r.t, !.outcome = r.outcome,
                                    !.yielded = IF r.outcome = "ok" THEN Append(@, r.item) ELSE @]
    /\ UNCHANGED << analysis, backtrackIter, lookaheadIter, parseState >>

NextTokens == CallTokensNext

SpecTokens == InitTokens /\ [][NextTokens]_vars

\* ------------------------------------------------------------ properties
Spaces == {"export", "local"}

\* the name targets of the namespace registry
Slots ==
    {x \in [ns : 0..(Len(namespaces) - 1), space : Spaces, name : Names] :
        TargetOf(namespaces, x.space, x.ns, x.name) # Absent}

SlotTarget(x) == TargetOf(namespaces, x.space, x.ns, x.name)

RefsOf(t, kinds) == {k \in 1..Len(t.references) : t.references[k].kind \in kinds}
ResolvedRefs(t) ==
    {k \in 1..Len(t.references) : RefStatus(t.references[k]) = "FullyResolved"}
DiagsOf(kinds) == {k \in 1..Len(diagnostics) : diagnostics[k].kind \in kinds}

\* C1: once the resolution pass has processed every namespace, no name target,
\* local or export, of any namespace is left with status NotResolved.
C1_TerminalStatus ==
    phase = "done" => \A x \in Slots : SlotTarget(x).status # "NotResolved"

\* C2: the recursion of process_name stops at a name that is already on the
\* current chain, so the pending calls never outnumber the names of a chain
\* without a repeated name, which are at most the name targets there are.
C2_DepthBound == Len(stack) <= Cardinality(Slots)

MissingKinds == {"MissingModule", "MissingExport"}
RECURSIVE CountMissing(_)
\* the MissingModule/MissingExport references of the name targets S
CountMissing(S) ==
    IF S = {} THEN 0
    ELSE LET x == CHOOSE y \in S : TRUE
         IN  Cardinality(RefsOf(SlotTarget(x), MissingKinds)) + CountMissing(S \ {x})

\* C3: a missing module or a missing export is reported exactly once, at the
\* dependency that points at it: there are as many MissingModule/MissingExport
\* diagnostics as there are such references, each diagnostic names a target that
\* holds the reference, and the names that depend on it add none.
C3_SingleEmission ==
    /\ Cardinality(DiagsOf(MissingKinds)) = CountMissing(Slots)
    /\ \A k \in DiagsOf(MissingKinds) :
        \E x \in Slots :
            /\ x.ns = diagnostics[k].ns
            /\ x.name = diagnostics[k].name
            /\ \E i \in RefsOf(SlotTarget(x), {diagnostics[k].kind}) :
                  SlotTarget(x).references[i].module = diagnostics[k].module

\* a chain A -> B -> C was resolved: a local and an export hold an empty
\* reference, and the one diagnostic is the one of the missing C
C3_Witness ==
    /\ phase = "done"
    /\ \E x \in Slots : RefsOf(SlotTarget(x), {"EmptyLocal"}) # {}
    /\ \E x \in Slots : RefsOf(SlotTarget(x), {"EmptyRemote"}) # {}
    /\ Cardinality(DiagsOf(MissingKinds)) = 1
    /\ Len(diagnostics) = 1

\* C4: in the state the resolution pass returns, a name target that holds a
\* resolved reference has status FullyResolved.
C4_ResolvedDominates ==
    phase = "done" =>
        \A x \in Slots :
            ResolvedRefs(SlotTarget(x)) # {} => SlotTarget(x).status = "FullyResolved"

\* C5: the cycles the cycle detector produces are pairwise disjoint.
C5_CyclesDisjoint ==
    phase = "cycled" =>
        \A i, j \in 1..Len(pf.list) : i # j => pf.list[i] \cap pf.list[j] = {}

RefSet(t) == {t.references[k] : k \in 1..Len(t.references)}
\* what a run returns: per name target its status and its set of references,
\* and the set of diagnostics
Outcome(nss, diags) ==
    [names |-> [i \in 1..Len(nss) |->
                  [sp \in Spaces |-> [n \in Names |->
                      LET t == TargetOf(nss, sp, i - 1, n)
                      IN  [status |-> t.status, references |-> RefSet(t)]]]],
     diagnostics |-> {diags[k] : k \in 1..Len(diags)}]

\* C6: resolving the same module graph twice yields the same statuses, the
\* same reference sets and the same diagnostics.
C6_Deterministic ==
    (phase = "done" /\ first.run) =>
        Outcome(namespaces, diagnostics) = Outcome(first.namespaces, first.diagnostics)

NoDuplicates(q) == \A i, j \in 1..Len(q) : i # j => q[i] # q[j]

\* C7: registering a referenced module twice leaves the module map and the
\* module queue as one registration does; a path that is registered already is
\* left as it is, and no path is in the queue twice.
C7_IdempotentRegistration ==
    /\ \A path \in Paths :
        LET once == AddReferencedModule(Process, path)
        IN  /\ AddReferencedModule(once, path) = once
            /\ modules[path].status # "Absent" => once = Process
    /\ NoDuplicates(moduleQueue)
    /\ \A i \in 1..Len(moduleQueue) : modules[moduleQueue[i]].status = "Referenced"

\* the entry module, parsed, names itself and another module in its statements
C7_Witness ==
    /\ modules[Entry].status = "Success"
    /\ \E i \in 1..Len(prog[Entry].stmts) : prog[Entry].stmts[i].m = Entry
    /\ moduleQueue # <<>>

\* C8: the declaration id of every resolved reference is an index into the
\* declaration arena.
C8_ValidDeclarationIds ==
    \A x \in Slots :
        \A k \in ResolvedRefs(SlotTarget(x)) :
            /\ SlotTarget(x).references[k].decl >= 0
            /\ SlotTarget(x).references[k].decl < Len(declarations)
            /\ declarations[SlotTarget(x).references[k].decl + 1].declarationId
                  = SlotTarget(x).references[k].decl

\* the pass has returned, with a RemoteName, a LocalName and a LocalDeclaration
C8_Witness ==
    /\ phase = "done"
    /\ \E x \in Slots : RefsOf(SlotTarget(x), {"RemoteName"}) # {}
    /\ \E x \in Slots : RefsOf(SlotTarget(x), {"LocalName"}) # {}
    /\ \E x \in Slots : RefsOf(SlotTarget(x), {"LocalDeclaration"}) # {}

\* a imports v from b, b imports v from a, and that is all
Scenario5 ==
    /\ phase = "done"
    /\ prog["a"].stmts = << Stmt("import", "b", "v", "v") >>
    /\ prog["b"].stmts = << Stmt("import", "a", "v", "v") >>

OneReference(ns, kind, module) ==
    /\ namespaces[ns + 1].locals["v"].references = << Ref(kind, module, "v", NoId) >>
    /\ Cardinality({k \in 1..Len(diagnostics) : diagnostics[k].ns = ns}) = 1

\* C9 as the specification states it: both names end Circular with one
\* CircularRemote reference each, one diagnostic per module.
C9_Circular ==
    Scenario5 =>
        /\ namespaces[1].locals["v"].status = "Circular"
        /\ namespaces[2].locals["v"].status = "Circular"
        /\ OneReference(0, "CircularRemote", "b")
        /\ OneReference(1, "CircularRemote", "a")
        /\ Len(diagnostics) = 2

\* C9: when a imports v from b and b imports v from a and neither declares v,
\* neither module exports v: both names end Dangling with one MissingExport
\* reference each, one MissingExport diagnostic per module, two in total.
C9_Dangling ==
    Scenario5 =>
        /\ namespaces[1].locals["v"].status = "Dangling"
        /\ namespaces[2].locals["v"].status = "Dangling"
        /\ OneReference(0, "MissingExport", "b")
        /\ OneReference(1, "MissingExport", "a")
        /\ Len(diagnostics) = 2
        /\ \A k \in 1..Len(diagnostics) : diagnostics[k].kind = "MissingExport"

C9_Witness == Scenario5 /\ Slots # {}

Other(x) == IF x = "a" THEN "b" ELSE "a"

\* x and the other module each pure-forward the other, and x exports a
\* declared constant v; the passes before resolution are over
Scenario3(x) ==
    /\ prog[x].stmts = << Stmt("forward", Other(x), "*", "*"),
                          Stmt("exportDecl", None, "v", "v") >>
    /\ prog[Other(x)].stmts = << Stmt("forward", x, "*", "*") >>
    /\ phase \notin {"enum", "graph"}

\* C10: in that program the cycle detector reports the one cycle of the two
\* namespaces; the pass returns; the export set of the other module is exactly
\* {v}, resolved to the declaration of v in x; and the exports of x are its own
\* declaration and nothing else.
C10_PureForwardCycle ==
    \A x \in {"a", "b"} :
        LET own == modules[x].namespaceId
            other == modules[Other(x)].namespaceId
        IN  Scenario3(x) =>
            /\ pf.list = << {0, 1} >>
            /\ pf.map[0] = {0, 1} /\ pf.map[1] = {0, 1}
            /\ phase \in {"resolve", "done"}
            /\ phase = "done" =>
                /\ ExportKeys(namespaces, other) = {"v"}
                /\ namespaces[other + 1].exports["v"].status = "FullyResolved"
                /\ namespaces[other + 1].exports["v"].references
                      = << Ref("RemoteName", x, "v", 0) >>
                /\ declarations[1].declarationId = 0
                /\ ExportKeys(namespaces, own) = {"v"}
                /\ namespaces[own + 1].exports["v"].status = "FullyResolved"
                /\ namespaces[own + 1].exports["v"].references
                      = << Ref("LocalDeclaration", None, None, 0) >>

\* the pass has returned for the program whose entry module declares v
C10_Witness == Scenario3("a") /\ phase = "done"

\* ------------------------------------------------- the scenarios of imports
HasStmt(x, st) == \E i \in 1..Len(prog[x].stmts) : prog[x].stmts[i] = st

\* the statements of x that bind the local name v
LocalBinders(x) ==
    {i \in 1..Len(prog[x].stmts) :
        /\ prog[x].stmts[i].k \in {"import", "decl", "exportDecl"}
        /\ prog[x].stmts[i].n = "v"}

\* module x parsed, its only binding of the local v is an import of v from m,
\* it forwards nothing from m by name, and both passes are over
ImportsOnly(x, m) ==
    /\ phase = "done"
    /\ prog[x].res = "ok"
    /\ HasStmt(x, Stmt("import", m, "v", "v"))
    /\ Cardinality(LocalBinders(x)) = 1
    /\ ~HasStmt(x, Stmt("forward", m, "v", "v"))
    /\ ~HasStmt(x, Stmt("forward", m, "v", "z"))

\* the diagnostics emitted for the name v of namespace ns about module m
DiagsFor(ns, m) ==
    {k \in 1..Len(diagnostics) :
        diagnostics[k].ns = ns /\ diagnostics[k].name = "v" /\ diagnostics[k].module = m}

\* C11: when a namespace imports v from a module m that does not exist as a
\* file, then after both passes m is NotFound, the local v is Dangling with the
\* one reference MissingModule(m, v), and one diagnostic is emitted for it, at
\* level Error, located at the module string literal of the import. When the
\* import is the whole program, that diagnostic is the only one.
C11_MissingModule ==
    \A x \in {"a", "b"} : \A m \in Paths \ files :
        ImportsOnly(x, m) =>
            LET ns == modules[x].namespaceId
            IN  /\ modules[m].status = "NotFound"
                /\ namespaces[ns + 1].locals["v"].status = "Dangling"
                /\ namespaces[ns + 1].locals["v"].references
                      = << Ref("MissingModule", m, "v", NoId) >>
                /\ Cardinality(DiagsFor(ns, m)) = 1
                /\ \A k \in DiagsFor(ns, m) :
                      /\ diagnostics[k].kind = "MissingModule"
                      /\ diagnostics[k].level = "Error"
                      /\ diagnostics[k].location = "moduleName"
                /\ Len(prog[x].stmts) = 1 /\ x = Entry => Len(diagnostics) = 1

\* scenario 1: a is the one statement import from "b": { v }, b is no file
C11_Witness ==
    /\ ImportsOnly("a", "b")
    /\ "b" \notin files
    /\ Len(prog["a"].stmts) = 1
    /\ Len(diagnostics) = 1

\* the statements of e that give its export v a reference or a dependency
ExportBinders(e) ==
    {i \in 1..Len(prog[e].stmts) :
        \/ prog[e].stmts[i].k \in {"exportDecl", "exportName"} /\ prog[e].stmts[i].n = "v"
        \/ /\ prog[e].stmts[i].k \in {"forward", "forwardAgain"}
           /\ prog[e].stmts[i].n \in {"v", "*"}}

\* module e exports a declared constant v and nothing else under that name
ExportsConstant(e) ==
    /\ prog[e].res = "ok"
    /\ HasStmt(e, Stmt("exportDecl", None, "v", "v"))
    /\ Cardinality(ExportBinders(e)) = 1

\* the declaration id enumeration gave to the exported constant v of e
ExportedDeclarationId(e) ==
    namespaces[modules[e].namespaceId + 1].exports["v"].references[1].decl

\* C12: when module e exports a declared constant v and module x imports v
\* from e, then after resolution the local v of x is FullyResolved and holds
\* the one reference RemoteName(e, v, d), d being the id enumeration assigned
\* to the declaration of v in e.
C12_RemoteName ==
    \A x \in {"a", "b"} : \A e \in Paths :
        ImportsOnly(x, e) /\ ExportsConstant(e) =>
            LET ns == modules[x].namespaceId
                d == ExportedDeclarationId(e)
            IN  /\ namespaces[ns + 1].locals["v"].status = "FullyResolved"
                /\ namespaces[ns + 1].locals["v"].references
                      = << Ref("RemoteName", e, "v", d) >>
                /\ d \in 0..(Len(declarations) - 1)
                /\ declarations[d + 1].declarationId = d
                /\ namespaces[modules[e].namespaceId + 1].exports["v"].references
                      = << Ref("LocalDeclaration", None, None, d) >>
                /\ DiagsFor(ns, e) = {}

\* scenario 2 in a program where an earlier module declared a constant, so
\* that the id of the exported declaration is not 0
C12_Witness ==
    \E x \in {"a", "b"} : \E e \in Paths :
        /\ ImportsOnly(x, e) /\ ExportsConstant(e)
        /\ ExportedDeclarationId(e) # 0

\* module x imports v from itself and its export map holds no v
SelfImport(x) ==
    /\ ImportsOnly(x, x)
    /\ namespaces[modules[x].namespaceId + 1].exports["v"] = Absent

\* C13: when a module imports v from itself and has no export v, then after
\* resolution its local v is Dangling with the one reference
\* MissingExport(x, v), and the one diagnostic emitted for it is of level
\* Error and about the missing export: the module is Success, and nothing
\* about a missing module or a circular dependency is recorded.
C13_SelfImport ==
    \A x \in {"a", "b"} :
        SelfImport(x) =>
            LET ns == modules[x].namespaceId
            IN  /\ modules[x].status = "Success"
                /\ namespaces[ns + 1].locals["v"].status = "Dangling"
                /\ namespaces[ns + 1].locals["v"].references
                      = << Ref("MissingExport", x, "v", NoId) >>
                /\ Cardinality(DiagsFor(ns, x)) = 1
                /\ \A k \in DiagsFor(ns, x) :
                      /\ diagnostics[k].kind = "MissingExport"
                      /\ diagnostics[k].level = "Error"
                /\ Len(prog[x].stmts) = 1 /\ x = Entry => Len(diagnostics) = 1

\* scenario 4: the entry module is the one statement import from "a": { v }
C13_Witness ==
    /\ SelfImport("a")
    /\ Len(prog["a"].stmts) = 1
    /\ Len(diagnostics) = 1

\* ------------------------------------------------------- failing modules
FailedStatus(parsed) == IF parsed.res = "enoent" THEN "NotFound" ELSE "Unparsed"

\* the entry module failing stops enumeration at once with a diagnostic of
\* the given level as the last one; another module failing does not
EntryAbort(level) ==
    /\ prog[Entry].res \in {"enoent", "bad"} =>
          /\ phase = "aborted"
          /\ modules[Entry].status = FailedStatus(prog[Entry])
          /\ diagnostics # <<>>
          /\ diagnostics[Len(diagnostics)].kind = "Entry"
          /\ diagnostics[Len(diagnostics)].level = level
          /\ \A p \in Paths \ {Entry} : prog[p] = Unseen
          /\ pf = NoPf /\ stack = <<>> /\ namespaces = <<>>
    /\ \A p \in Paths \ {Entry} :
          prog[p].res \in {"enoent", "bad"} =>
              /\ modules[p].status = FailedStatus(prog[p])
              /\ phase # "aborted"
              /\ \A k \in 1..Len(diagnostics) : diagnostics[k].kind # "Entry"

\* C14: when the entry module is not found or fails to parse, enumeration stops
\* at once with a diagnostic of level Fatal as the last one: no other module
\* was parsed and no later pass has run. When another module is not found or
\* fails to parse, its status is recorded and the run is not aborted.
C14_EntryAbort == EntryAbort("Fatal")

\* the same with the level Diagnostic::new gives
EntryAbortAtError == EntryAbort("Error")

\* --------------------------------------------------------------- panics
\* C15: no program whose entry module parses brings enumeration and resolution
\* to a panic (a duplicate pure forward), to a recursion without end, or to the
\* internal error of a status that `isn't supposed to happen`.
C15_NoPanic == phase \notin {"panic", "overflow", "crashed"}

\* ------------------------------------------------------------- the pipeline
\* the errors reported by the passes before the name-clash pass
ErrorsBeforeNameClash ==
    {k \in AtLeast(diagnostics, "Error") : diagnostics[k].kind # "NameClash"}

\* C16 as the specification states it: with a diagnostic at Error or above the
\* pipeline halts before its later stages: the name-clash pass has not run
\* after an error of an earlier pass, and translation is not reached with any.
C16_HaltOnError ==
    /\ phase \in {"analyzed", "failed", "translate", "unimplemented"} /\ namespaces # <<>>
          => ErrorsBeforeNameClash = {}
    /\ phase \in {"translate", "unimplemented"} => AtLeast(diagnostics, "Error") = {}

\* C16: translation is reached only without a diagnostic at Error or above,
\* and with one the run ends as failed; the passes of analyze run to the last
\* whenever enumeration returned a result, errors or not, and an enumeration
\* without a result is followed by no pass.
C16_HaltBeforeTranslation ==
    /\ phase \in {"translate", "unimplemented"} => AtLeast(diagnostics, "Error") = {}
    /\ phase = "failed" => AtLeast(diagnostics, "Error") # {}
    /\ phase = "done" => ENABLED Typecheck
    /\ phase = "typechecked" => ENABLED CheckNameClashes
    /\ phase = "failed" /\ namespaces = <<>> =>
          \A k \in 1..Len(diagnostics) : diagnostics[k].kind \in {"Entry", "Parse"}
    /\ phase \in {"typechecked", "analyzed"} => namespaces # <<>>

\* a run that failed after the name-clash pass reported, although resolution
\* had reported a missing module
C16_Witness ==
    /\ phase = "failed"
    /\ \E k \in 1..Len(diagnostics) : diagnostics[k].kind = "MissingModule"
    /\ diagnostics[Len(diagnostics)].kind = "NameClash"

\* ------------------------------------------------------- frame of resolution
\* a step taken during the resolution pass keeps the inputs it only reads
ResolutionKeeps ==
    phase \in {"graph", "resolve"} =>
        /\ modules' = modules
        /\ declarations' = declarations
        /\ pureForwards' = pureForwards

Earlier(p, q) == IF Before(q, p) THEN q ELSE p
Later(p, q) == IF Before(p, q) THEN q ELSE p

\* range r lies within range m
Contains(m, r) == ~Before(r.start, m.start) /\ ~Before(m.end, r.end)

\* C18: for two ranges of one file, merge returns the range from the earlier
\* of the two starts to the later of the two ends; merging in the other order
\* gives the same range; and the merged range contains both.
C18_MergeRange ==
    phase = "merged" =>
        LET a == ranges.self
            b == ranges.location
        IN  /\ ranges.merged.path = a.path
            /\ ranges.merged.start = Earlier(a.start, b.start)
            /\ ranges.merged.end = Later(a.end, b.end)
            /\ FileRangeMerge(a, b) = FileRangeMerge(b, a)
            /\ Contains(ranges.merged, a)
            /\ Contains(ranges.merged, b)

\* ---------------------------------------------------------- the cycle detector
\* C19: when get_cycles returns, every namespace id in 0..size has been marked
\* visited, for every graph.
C19_AllVisited ==
    phase = "cycled" => pf.visited = NsIds(pf.graph)

\* forwarder pure-forwards from exporter
Forwards(g, exporter, forwarder) ==
    \E e \in g.edges : e.exporter = exporter /\ e.forwarder = forwarder

RECURSIVE Reaches(_, _, _, _)
\* a path of at most k pure forwards leads from a to b
Reaches(g, a, b, k) ==
    \/ a = b
    \/ /\ k > 0
       /\ \E c \in NsIds(g) : Forwards(g, a, c) /\ Reaches(g, c, b, k - 1)

\* the namespaces mutually reachable with n
MutuallyReachable(g, n) ==
    {m \in NsIds(g) : Reaches(g, n, m, g.size) /\ Reaches(g, m, n, g.size)}

\* C20: a namespace is a key of the map of get_cycles exactly when it lies on
\* a cycle of pure forwards through two or more namespaces, and then its
\* cycle is the set of the namespaces mutually reachable with it; a namespace
\* with a forward from itself and no other cycle is no key.
C20_MaximalCycles ==
    phase = "cycled" =>
        \A n \in NsIds(pf.graph) :
            LET scc == MutuallyReachable(pf.graph, n)
            IN  pf.map[n] = IF Cardinality(scc) >= 2 THEN scc ELSE {}

\* ------------------------------------------------- pure-forward replacement
\* the replacement pass has returned and no name has been started
JustReplaced ==
    /\ phase = "resolve"
    /\ stack = <<>>
    /\ cur = [ns |-> 0, loop |-> "exports", todo |-> ExportKeys(namespaces, 0)]

\* the replacement dependencies queued in the export targets of namespace ns
ReplacementsIn(ns) ==
    {x \in [name : Names, k : 1..(2 * MaxStmts + 2)] :
        /\ x.k <= Len(namespaces[ns + 1].exports[x.name].dependencies)
        /\ namespaces[ns + 1].exports[x.name].dependencies[x.k].kind
              = "PureForwardReplacement"}

ReplacementAt(ns, x) == namespaces[ns + 1].exports[x.name].dependencies[x.k]

\* C21: the replacement pass terminates for every pure-forward graph, and no
\* two replacement dependencies are synthesized for the same forwarder,
\* supplying module and export name.
C21_ReplacementTerminates ==
    /\ phase # "overflow"
    /\ JustReplaced =>
          \A ns \in 0..(Len(namespaces) - 1) : \A x, y \in ReplacementsIn(ns) :
              LET d == ReplacementAt(ns, x)
                  e == ReplacementAt(ns, y)
              IN  d.ns = e.ns /\ d.module = e.module /\ d.name = e.name => x = y

\* the replacement dependencies of namespace ns for export name n that forward
\* from module m
ReplacementsFrom(ns, n, m) ==
    {x \in ReplacementsIn(ns) : x.name = n /\ ReplacementAt(ns, x).module = m}

\* module x holds the clause export * from "y", y parsed
PureForwards(x, y) ==
    /\ prog[x].res = "ok"
    /\ HasStmt(x, Stmt("forward", y, "*", "*"))
    /\ modules[y].status = "Success"

\* C22: when the pure forwards form no cycle, the pass has returned and x
\* pure-forwards from y, then for every export name y exposes after its own
\* expansion (names gained through its own pure forwards included) x holds
\* exactly one PureForwardReplacement dependency from y, originating in x, and
\* none for any other name.
C22_SupplierFirst ==
    JustReplaced /\ pf.list = <<>> =>
        \A x \in {"a", "b"} : \A y \in Paths :
            PureForwards(x, y) =>
                LET ns == modules[x].namespaceId
                    sup == modules[y].namespaceId
                IN  \A n \in Names :
                        /\ Cardinality(ReplacementsFrom(ns, n, y))
                              = IF n \in ExportKeys(namespaces, sup) THEN 1 ELSE 0
                        /\ \A r \in ReplacementsFrom(ns, n, y) :
                              /\ ReplacementAt(ns, r).ns = ns
                              /\ ReplacementAt(ns, r).target = n

\* a forwards from b, b forwards from c, c exports the constant v: a holds the
\* replacement for v that b gained from c
C22_Witness ==
    /\ JustReplaced /\ pf.list = <<>>
    /\ PureForwards("a", "b") /\ PureForwards("b", "c")
    /\ Len(prog["b"].stmts) = 1
    /\ Cardinality(ReplacementsFrom(modules["a"].namespaceId, "v", "b")) = 1

\* C23: after the replacement pass the members of a pure-forward cycle share
\* one export pool: every replacement dependency sits in an export target of
\* the member it originates in, and all members of one cycle have the same
\* set of export names.
C23_SharedPool ==
    JustReplaced =>
        \A m \in NsIds(pf.graph) : \A k \in pf.map[m] :
            /\ ExportKeys(namespaces, m) = ExportKeys(namespaces, k)
            /\ \A x \in ReplacementsIn(m) : ReplacementAt(m, x).ns = m

\* the pure forwards whose target module was not parsed successfully
UnresolvedForwards ==
    {k \in 1..Len(pureForwards) : modules[pureForwards[k].exportModule].status # "Success"}

\* target t became target u by replacement dependencies added at the end
\* (a target that did not exist is created without status or reference)
OnlyReplacementsAdded(t, u) ==
    /\ u.status = IF t = Absent /\ u # Absent THEN "NotResolved" ELSE t.status
    /\ u.references = t.references
    /\ Len(u.dependencies) >= Len(t.dependencies)
    /\ SubSeq(u.dependencies, 1, Len(t.dependencies)) = t.dependencies
    /\ \A k \in (Len(t.dependencies) + 1)..Len(u.dependencies) :
          /\ u.dependencies[k].kind = "PureForwardReplacement"
          /\ modules[u.dependencies[k].module].status = "Success"

\* a step of the replacement pass that returns
ReplacementFrame ==
    phase = "graph" /\ phase' = "resolve" =>
        /\ Len(namespaces') = Len(namespaces)
        /\ \A i \in 1..Len(namespaces) : \A n \in Names :
              /\ namespaces'[i].locals[n] = namespaces[i].locals[n]
              /\ OnlyReplacementsAdded(namespaces[i].exports[n], namespaces'[i].exports[n])
        /\ Len(diagnostics') = Len(diagnostics) + Cardinality(UnresolvedForwards)
        /\ SubSeq(diagnostics', 1, Len(diagnostics)) = diagnostics
        /\ \A k \in (Len(diagnostics) + 1)..Len(diagnostics') :
              /\ diagnostics'[k].kind = "Unresolved"
              /\ modules[diagnostics'[k].module].status # "Success"
        /\ \A e \in pf'.graph.edges : modules[e.exportModule].status = "Success"

\* C24: the replacement pass only adds PureForwardReplacement dependencies to
\* export targets: no local target, reference list or status changes, and its
\* diagnostics are one per pure forward of a module that was not parsed
\* successfully, for which it creates no graph edge and no dependency.
C24_ReplacementFrame == [][ReplacementFrame]_vars

\* the pass has returned with a replacement added and a diagnostic for a
\* pure forward of a missing module
C24_Witness ==
    /\ JustReplaced
    /\ \E ns \in 0..(Len(namespaces) - 1) : ReplacementsIn(ns) # {}
    /\ \E k \in 1..Len(diagnostics) : diagnostics[k].kind = "Unresolved"

\* ------------------------------------------------------- status, once set
Terminal(t) == t.status \notin {"Absent", "NotResolved"}

\* a step of resolution leaves every terminal name target as it is
TerminalKept ==
    phase = "resolve" /\ Len(namespaces') = Len(namespaces) =>
        \A i \in 1..Len(namespaces) : \A n \in Names :
            /\ Terminal(namespaces[i].exports[n]) =>
                  namespaces'[i].exports[n] = namespaces[i].exports[n]
            /\ Terminal(namespaces[i].locals[n]) =>
                  namespaces'[i].locals[n] = namespaces[i].locals[n]

\* C25: once a name target has left NotResolved, its status never changes
\* again and no reference is added to it; a name that is terminal is not
\* processed again, also when it is reached again while it is being drained.
C25_StatusOnce == [][TerminalKept]_vars

\* the dependency a pending call of the name has taken off the queue and not
\* yet turned into references
InFlight(x) ==
    {k \in 1..Len(stack) :
        /\ stack[k].space = x.space /\ stack[k].ns = x.ns /\ stack[k].name = x.name
        /\ stack[k].pending # NoDep}

\* C26: in every state reached during resolution a name target with a
\* terminal status has an empty dependency queue, and none of its dependencies
\* is still unprocessed (taken off the queue by a call that has not returned).
C26_TerminalDrained ==
    phase \in {"resolve", "done"} =>
        \A x \in Slots :
            Terminal(SlotTarget(x)) =>
                /\ SlotTarget(x).dependencies = <<>>
                /\ InFlight(x) = {}

\* the same for the queue alone
TerminalQueueEmpty ==
    phase \in {"resolve", "done"} =>
        \A x \in Slots : Terminal(SlotTarget(x)) => SlotTarget(x).dependencies = <<>>


\* the references of the lone name target by kind
Kinds == {nameTarget.references[i].kind : i \in 1..Len(nameTarget.references)}
ResolvedKinds == {"RemoteName", "RemoteNamespace", "LocalName", "LocalDeclaration"}
DanglingKinds == {"MissingModule", "MissingExport", "MissingLocal"}
CircularKinds == {"CircularRemote", "CircularLocal"}

\* C27: the aggregate status of any list of references is FullyResolved when
\* one of them is resolved; with none resolved it is Dangling when one is
\* dangling, else Circular when one is circular, else Empty; a name without
\* references is Empty.
C27_AggregatePriority ==
    phase = "status" =>
        /\ Kinds \cap ResolvedKinds # {} => nameTarget.status = "FullyResolved"
        /\ Kinds \cap ResolvedKinds = {} =>
            /\ Kinds \cap DanglingKinds # {} => nameTarget.status = "Dangling"
            /\ (Kinds \cap DanglingKinds = {} /\ Kinds \cap CircularKinds # {}) =>
                    nameTarget.status = "Circular"
            /\ Kinds \cap (DanglingKinds \cup CircularKinds) = {} =>
                    nameTarget.status = "Empty"
        /\ nameTarget.references = <<>> => nameTarget.status = "Empty"

C27_Witness ==
    /\ phase = "status"
    /\ Kinds = {"CircularLocal", "MissingExport", "EmptyRemote"}
    /\ nameTarget.status = "Dangling"


\* a step of the resolution pass in which the processing of a dependency ends:
\* a call returns to the dependency it was made for, or the dependency at the
\* head of the queue is processed without a call being entered
Returning == phase = "resolve" /\ Len(stack) >= 2 /\ Len(stack') = Len(stack) - 1
NoCallEntered ==
    /\ phase = "resolve"
    /\ stack # <<>>
    /\ Len(stack') = Len(stack)
    /\ TargetOf(namespaces, Top.space, Top.ns, Top.name).dependencies # <<>>
Processed ==
    IF Returning THEN stack[Len(stack) - 1].pending
    ELSE Head(TargetOf(namespaces, Top.space, Top.ns, Top.name).dependencies)

\* the status of the name the processed dependency points at, as the switch
\* reads it, and the references that name held
TargetStatus ==
    IF ReadNamespace(Processed) = NoId \/ ReadSpace(Processed) = None THEN "Absent"
    ELSE TargetOf(namespaces', ReadSpace(Processed), ReadNamespace(Processed),
                  Processed.target).status
TargetReferences ==
    TargetOf(namespaces, ReadSpace(Processed), ReadNamespace(Processed),
             Processed.target).references

\* the references the originating name received in the step
OriginBefore ==
    TargetOf(namespaces, WriteSpace(Processed), Processed.ns, Processed.name).references
OriginAfter ==
    TargetOf(namespaces', WriteSpace(Processed), Processed.ns, Processed.name).references
Received == SubSeq(OriginAfter, Len(OriginBefore) + 1, Len(OriginAfter))
KeepsReferences ==
    /\ Len(OriginAfter) >= Len(OriginBefore)
    /\ SubSeq(OriginAfter, 1, Len(OriginBefore)) = OriginBefore

\* one resolved reference per resolved reference of refs, for dependency dep
ResolvedCopies(refs, dep) ==
    LET rs == SelectSeq(refs, LAMBDA r : r.kind \in ResolvedKinds)
    IN  [i \in 1..Len(rs) |->
            Ref(IF Remote(dep) THEN "RemoteName" ELSE "LocalName",
                dep.module, dep.target, rs[i].decl)]

PropagatesResolved ==
    ((Returning \/ NoCallEntered) /\ TargetStatus = "FullyResolved") =>
        /\ KeepsReferences
        /\ Received = ResolvedCopies(TargetReferences, Processed)

\* C28: when the processing of a dependency finds its target name
\* FullyResolved, the originating name receives, in order, one resolved
\* reference for each resolved reference of the target, with that reference's
\* declaration id, and nothing for the target's other references.
C28_ResolvedPerReference == [][PropagatesResolved]_vars


\* an export holds a declaration and a dangling reference and is
\* FullyResolved; a local that imports it holds the one RemoteName reference
\* with the id of that declaration
C28_Witness ==
    \E x, y \in Slots :
        /\ x.space = "local" /\ y.space = "export"
        /\ SlotTarget(y).status = "FullyResolved"
        /\ Cardinality(ResolvedRefs(SlotTarget(y))) = 1
        /\ Len(SlotTarget(y).references) = 2
        /\ Len(SlotTarget(x).references) = 1
        /\ \E i \in ResolvedRefs(SlotTarget(y)) :
              SlotTarget(x).references[1]
                  = Ref("RemoteName", namespaces[y.ns + 1].path, y.name,
                        SlotTarget(y).references[i].decl)


\* the one reference of the given kind for the processed dependency
OneReceived(remote, local) ==
    /\ KeepsReferences
    /\ Received = << Ref(IF Remote(Processed) THEN remote ELSE local,
                         Processed.module, Processed.target, NoId) >>

PropagatesUnresolved ==
    (Returning \/ NoCallEntered) =>
        /\ TargetStatus \in {"Dangling", "Empty"} =>
                OneReceived("EmptyRemote", "EmptyLocal") /\ diagnostics' = diagnostics
        /\ TargetStatus = "Circular" =>
                OneReceived("CircularRemote", "CircularLocal") /\ diagnostics' = diagnostics

\* the same over the steps of the resolution pass, for every kind of dependency
UnresolvedPropagationInPass == [][PropagatesUnresolved]_vars

\* what the importing local received from the switch
Got == namespaces[1].locals["v"].references

\* C29: when the target name of a dependency is Dangling or Empty, the
\* originating name receives exactly one Empty reference, and when it is
\* Circular exactly one Circular reference; the step adds no diagnostic.
C29_UnresolvedPropagation ==
    phase = "propagated" =>
        /\ nameTarget.status \in {"Dangling", "Empty"} =>
                Got = << Ref("EmptyRemote", Lib, "v", NoId) >> /\ diagnostics = <<>>
        /\ nameTarget.status = "Circular" =>
                Got = << Ref("CircularRemote", Lib, "v", NoId) >> /\ diagnostics = <<>>

\* a target with a circular and an empty reference was found Circular
C29_Witness ==
    /\ phase = "propagated"
    /\ Kinds = {"CircularRemote", "EmptyLocal"}
    /\ nameTarget.status = "Circular"
    /\ Got = << Ref("CircularRemote", Lib, "v", NoId) >>


NamespaceKinds == {"ImportedNamespace", "ForwardedNamespace"}

\* the dependency at the head of the queue of the name being processed is a
\* namespace dependency
AtNamespace ==
    /\ phase = "resolve"
    /\ stack # <<>>
    /\ TargetOf(namespaces, Top.space, Top.ns, Top.name).dependencies # <<>>
    /\ Head(TargetOf(namespaces, Top.space, Top.ns, Top.name).dependencies).kind
            \in NamespaceKinds

ProcessesNamespace ==
    AtNamespace =>
        /\ Len(stack') = Len(stack)
        /\ KeepsReferences
        /\ Len(Received) = 1
        /\ Received[1].module = Processed.module
        /\ Received[1].kind =
                IF ReadNamespace(Processed) = NoId THEN "MissingModule"
                ELSE "RemoteNamespace"

\* C30: the processing of an ImportedNamespace or ForwardedNamespace
\* dependency enters no call for another name and gives the originating name
\* exactly one reference: MissingModule when the target module is not Success,
\* a resolved RemoteNamespace reference otherwise.
C30_NamespaceImmediate == [][ProcessesNamespace]_vars

\* the same for a target module that is not Success
ProcessesMissingNamespace ==
    (AtNamespace /\ ReadNamespace(Processed) = NoId) =>
        /\ Len(stack') = Len(stack)
        /\ KeepsReferences
        /\ Received = << Ref("MissingModule", Processed.module, None, NoId) >>
        /\ Len(diagnostics') = Len(diagnostics) + 1
MissingNamespaceImmediate == [][ProcessesMissingNamespace]_vars


\* the dependencies queued at a name target
QueuedAt(x) == {SlotTarget(x).dependencies[k] : k \in 1..Len(SlotTarget(x).dependencies)}

\* C31: in every state after enumeration and after the pure-forward
\* replacement pass, each queued dependency sits in the locals map (imports)
\* or the exports map (forwards, exported names, replacements) of the
\* namespace it names as its originating namespace, under the originating
\* name it carries.
C31_QueuedWhereWritten ==
    phase \in {"enum", "graph", "resolve", "done"} =>
        \A x \in Slots : \A d \in QueuedAt(x) :
            /\ d.ns = x.ns
            /\ d.name = x.name
            /\ x.space = IF d.kind \in {"ImportedName", "ImportedNamespace"}
                          THEN "local" ELSE "export"

\* the same for the dependencies other than named forwards under an alias
QueuedWhereWrittenButAlias ==
    phase \in {"enum", "graph", "resolve", "done"} =>
        \A x \in Slots : \A d \in QueuedAt(x) :
            (d.kind = "ForwardedName" => d.name = d.target) =>
                /\ d.ns = x.ns
                /\ d.name = x.name
                /\ x.space = IF d.kind \in {"ImportedName", "ImportedNamespace"}
                              THEN "local" ELSE "export"


\* the namespaces that were declared inside another namespace
Nested == {i \in 1..Len(namespaces) : "parentNamespaceId" \in DOMAIN namespaces[i]}
NamespaceDeclarations == {j \in 1..Len(declarations) : declarations[j].kind = "Namespace"}

\* C32: throughout enumeration the namespace with id i is at index i of the
\* namespace arena and the declaration with id j at index j of the
\* declaration arena, also when namespace declarations nest; a nested
\* namespace and its Namespace declaration hold each other's ids, and the
\* parent of a nested namespace is an earlier namespace.
C32_DenseIds ==
    /\ \A i \in 1..Len(namespaces) : namespaces[i].namespaceId = i - 1
    /\ \A j \in 1..Len(declarations) : declarations[j].declarationId = j - 1
    /\ \A i \in Nested :
        /\ namespaces[i].declarationId + 1 \in NamespaceDeclarations
        /\ declarations[namespaces[i].declarationId + 1].namespaceId = i - 1
        /\ namespaces[i].parentNamespaceId \in 0..(i - 2)
    /\ \A j \in NamespaceDeclarations :
        /\ declarations[j].namespaceId + 1 \in Nested
        /\ namespaces[declarations[j].namespaceId + 1].declarationId = j - 1

\* two modules were enumerated; a namespace nests in a nested namespace of
\* the first one, after a constant, and the second module follows them
C32_Witness ==
    /\ phase = "graph"
    /\ \E i \in Nested :
        /\ namespaces[i].parentNamespaceId + 1 \in Nested
        /\ namespaces[i].declarationId # i - 1
        /\ \E k \in (i + 1)..Len(namespaces) : namespaces[k].path = "b"


FinalModuleStatus == {"NotFound", "Unparsed", "Success"}

\* the status of a module goes from Referenced to a final status, or from
\* unregistered to Referenced or NotFound, and a final status stays
ModuleStatusMoves ==
    \A p \in Paths :
        LET old == modules[p].status
            new == modules'[p].status
        IN  /\ old \in FinalModuleStatus => modules'[p] = modules[p]
            /\ old = "Referenced" => new \in FinalModuleStatus \cup {"Referenced"}
            /\ old = "Absent" => new \in {"Absent", "Referenced", "NotFound"}

EveryModuleStartsReferenced ==
    \A p \in Paths :
        (modules[p].status # modules'[p].status /\ modules'[p].status \in FinalModuleStatus)
            => modules[p].status = "Referenced"

EnumerationEnded ==
    /\ moduleQueue = <<>>
    /\ \A p \in Paths : modules[p].status # "Referenced"
    /\ \A p \in Paths :
        modules[p].status = "Success" =>
            /\ modules[p].namespaceId \in 0..(Len(namespaces) - 1)
            /\ modules[p].namespaceId + 1 \notin Nested
            /\ namespaces[modules[p].namespaceId + 1].path = p

\* a round of consumeModuleQueue parses a module that was not parsed before
ParsedOnce ==
    (phase = "enum" /\ moduleQueue # <<>>) => prog[Head(moduleQueue)] = Unseen

\* C34: when the entry module parses, enumeration terminates, also when
\* modules import each other circularly: it ends with an empty module
\* queue, no module in status Referenced and every Success module owning the
\* module namespace with its path, and no module is parsed twice.
C34_EnumerationTerminates ==
    /\ (prog[Entry].res = "ok") ~> (phase = "graph")
    /\ [](phase = "graph" => EnumerationEnded)
    /\ [][ParsedOnce]_vars

\* the modules a and b import each other and both were enumerated
C34_Witness ==
    /\ phase = "graph"
    /\ HasStmt("a", Stmt("import", "b", "v", "v"))
    /\ HasStmt("b", Stmt("import", "a", "v", "v"))
    /\ modules["a"].status = "Success"
    /\ modules["b"].status = "Success"


\* C35: the status and the reference set of every name target are the same
\* when the registries are resolved with the exports of each namespace before
\* its locals or after them, and with the namespaces in any order.
C35_OrderIndependent ==
    (phase = "done" /\ first.run /\ order.start.run) =>
        Outcome(namespaces, diagnostics).names
            = Outcome(first.namespaces, first.diagnostics).names


\* no module forwards a name under another name
NoAlias ==
    \A x \in Paths : \A i \in 1..Len(prog[x].stmts) :
        prog[x].stmts[i].k = "forward" => prog[x].stmts[i].l = prog[x].stmts[i].n

\* the same for the programs without an aliased forward
OrderIndependentWithoutAlias == NoAlias => C35_OrderIndependent


\* the calls of next() since the last call of backtrack
SinceMark == Len(backtrackIter.yielded) - backtrackIter.mark.at

\* where the last call of backtrack put the iterator in the items of its source
MarkPosition ==
    Len(backtrackIter.mark.captured) - backtrackIter.mark.pending - backtrackIter.mark.count

\* every item is captured once: the captured items and the items to come are
\* the source
CapturedOnce ==
    backtrackIter.it.backtrack \o backtrackIter.it.iter = backtrackIter.source

\* C36: after backtrack(k) within the captured items, the next k calls of
\* next() yield the last k captured items in their order, next() then goes on
\* with fresh items of the underlying iterator, and no replayed item is
\* captured a second time.
C36_ReplaysLastCaptured ==
    (backtrackIter.constructed /\ backtrackIter.mark.at # NoId) =>
        /\ CapturedOnce
        /\ \A i \in 1..SinceMark :
              LET captured == backtrackIter.mark.captured
                  count == backtrackIter.mark.count
                  item == backtrackIter.yielded[backtrackIter.mark.at + i]
              IN  IF i <= count
                  THEN item = captured[Len(captured) - count + i]
                  ELSE Len(captured) + (i - count) <= Len(backtrackIter.source)
                          => item = backtrackIter.source[Len(captured) + (i - count)]

\* C36 (amended): the replayed items are the count captured items before the place the
\* iterator was at, which is the end of the captured items less the pending
\* offset; the calls after them go on from that place
C36_ReplaysBeforePosition ==
    (backtrackIter.constructed /\ backtrackIter.mark.at # NoId) =>
        /\ CapturedOnce
        /\ \A i \in 1..SinceMark :
              backtrackIter.yielded[backtrackIter.mark.at + i]
                  = IF MarkPosition + i <= Len(backtrackIter.source)
                    THEN backtrackIter.source[MarkPosition + i]
                    ELSE None

\* two items were replayed and a fresh one came after them
C36_Witness ==
    /\ backtrackIter.constructed
    /\ ~backtrackIter.panicked
    /\ backtrackIter.mark.count = 2
    /\ backtrackIter.mark.pending = 0
    /\ SinceMark = 3
    /\ backtrackIter.yielded[Len(backtrackIter.yielded)] # None
    /\ Len(backtrackIter.it.backtrack) = 3

\* a replay was pending when backtrack was called again, and the items were
\* replayed
PendingReplay ==
    /\ backtrackIter.constructed
    /\ backtrackIter.mark.pending > 0
    /\ backtrackIter.mark.count > 0
    /\ SinceMark >= backtrackIter.mark.count


\* the items to come, cut or padded with None to count entries
Padded(coming, count) ==
    [i \in 1..count |-> IF i <= Len(coming) THEN coming[i] ELSE None]

\* the last call of peeks returned count entries: the items that were to come,
\* padded with None
PeeksReturnsCount ==
    /\ lookaheadIter.peeked.outcome = "ok"
    /\ lookaheadIter.peeked.entries
          = Padded(lookaheadIter.peeked.coming, lookaheadIter.peeked.count)

\* the calls of next() after the last call of peeks yielded what it returned
PeeksDoesNotAdvance ==
    \A i \in 1..lookaheadIter.peeked.count :
        lookaheadIter.peeked.at + i <= Len(lookaheadIter.yielded)
            => lookaheadIter.yielded[lookaheadIter.peeked.at + i]
                   = Padded(lookaheadIter.peeked.coming, lookaheadIter.peeked.count)[i]

\* C37: peeks(count) returns exactly count entries for every count and every
\* state of the iterator, padded with None when fewer items remain, and does
\* not advance the iterator: the next() calls after it yield what it returned.
C37_PeeksExact ==
    (lookaheadIter.constructed /\ lookaheadIter.peeked.at # NoId) =>
        PeeksReturnsCount /\ PeeksDoesNotAdvance

\* a call of peeks that returns is exact: one that has nothing to fill, or one
\* in a build without overflow checks that has enough items to fill with
PeeksExactWhenItReturns ==
    (/\ lookaheadIter.constructed
     /\ lookaheadIter.peeked.at # NoId
     /\ lookaheadIter.peeked.outcome = "ok") => PeeksReturnsCount /\ PeeksDoesNotAdvance


\* where a parser is: position, line and column
Place(s) == [position |-> s.position, line |-> s.line, column |-> s.column]

\* C38: when a parse operation run through bk fails, position, line and column
\* all equal their values before the operation, however many characters it
\* consumed; on success the state the operation reached is kept.
C38_BkRestores ==
    (parseState.constructed /\ parseState.last.op = "bk") =>
        IF parseState.last.result.kind = "Fail"
        THEN Place(parseState.s) = Place(parseState.last.before)
        ELSE Place(parseState.s)
                 = Place(Parse(parseState.last.id, parseState.last.before).s)

\* the position is restored on failure and the state is kept on success
BkRestoresPosition ==
    (parseState.constructed /\ parseState.last.op = "bk") =>
        IF parseState.last.result.kind = "Fail"
        THEN parseState.s.position = parseState.last.before.position
        ELSE Place(parseState.s)
                 = Place(Parse(parseState.last.id, parseState.last.before).s)

\* C39: bk_memo gives the same result and leaves the same position, line and
\* column whether it is answered from the memo cache or by running the parse
\* function at that position.
C39_MemoAsRun ==
    (parseState.constructed /\ parseState.last.op = "bk_memo" /\ parseState.last.hit) =>
        LET run == Bk(parseState.last.before, parseState.last.id)
        IN  /\ parseState.last.result = run.result
            /\ Place(parseState.s) = Place(run.s)

\* the result and the position are the same from the cache as from a run
MemoPositionAsRun ==
    (parseState.constructed /\ parseState.last.op = "bk_memo" /\ parseState.last.hit) =>
        LET run == Bk(parseState.last.before, parseState.last.id)
        IN  /\ parseState.last.result = run.result
            /\ parseState.s.position = run.s.position

\* a success came from the cache
CachedSuccess ==
    /\ parseState.constructed
    /\ parseState.last.op = "bk_memo"
    /\ parseState.last.hit
    /\ parseState.last.result.kind = "Success"


\* the item ends the stream: the Eof token or a diagnostic
Ending(item) == item.kind = "Err" \/ (item.kind = "Ok" /\ item.type = "Eof")

\* C40: once the token stream has yielded the Eof token or a lexical error,
\* every further call of next() returns None, so that any input yields
\* finitely many items.
C40_StreamEnds ==
    tokens.constructed =>
        \A i \in 1..Len(tokens.yielded) : \A j \in 1..Len(tokens.yielded) :
            (i < j /\ Ending(tokens.yielded[i])) => tokens.yielded[j] = NoItem

\* the same after the Eof token alone
StreamEndsAfterEof ==
    tokens.constructed =>
        \A i \in 1..Len(tokens.yielded) : \A j \in 1..Len(tokens.yielded) :
            (i < j /\ tokens.yielded[i] = OkToken("Eof", <<>>)) => tokens.yielded[j] = NoItem

\* a comment was yielded, the Eof token after it and None after that
EofThenNone ==
    /\ tokens.constructed
    /\ Len(tokens.yielded) >= 3
    /\ tokens.yielded[1].type = "Comment"
    /\ tokens.yielded[2].type = "Eof"
    /\ tokens.yielded[3] = NoItem

====
